---- MODULE Spec2Model ----
(***************************************************************************)
(* State-machine model of ARWizardMemoryManager (the namespaced knowledge  *)
(* store of the AR Wizard platform) over an abstract key/value memory.     *)
(*                                                                         *)
(* Every public method is an async function: the code between two awaits   *)
(* runs atomically, and every await of the underlying memory is a point    *)
(* where other callers may run.  Each method is therefore a chain of       *)
(* actions, one per atomic segment, driven by proc[p].pc.                  *)
(*                                                                         *)
(* A nullable result (T | null) is a sequence of length 0 or 1; an array   *)
(* result is a sequence.  Dates are integers read from clock.              *)
(***************************************************************************)
EXTENDS Integers, Sequences, FiniteSets, TLC

VARIABLES
    clock,      \* the wall clock read by new Date() / Date.now()
    ticks,      \* number of clock advances so far
    expertise,  \* namespace ar-wizard:viewpoint-expertise : id -> record
    knowledge,  \* namespace ar-wizard:knowledge : id -> record
    analyses,   \* namespace ar-wizard:database-analysis : id -> record
    models,     \* namespace ar-wizard:predictive-models : id -> record
    context,    \* namespace ar-wizard:shared-context : key -> entry
    idCount,    \* number of ids generateId has handed out
    lastPut,    \* history: per key, what the last completed put asked for
    proc,       \* per caller: position in its current method and its locals
    status,               \* ARWizardPlatform.status
    healthCheckTimer,     \* ARWizardPlatform.healthCheckTimer: an interval id, 0 if undefined
    metricsTimer,         \* ARWizardPlatform.metricsTimer: an interval id, 0 if undefined
    intervals,            \* the intervals setInterval made that no clearInterval ended
    out,                  \* what the last step of the platform emitted and called, in order
    databaseConnections,  \* ARWizardIntegrationFramework.databaseConnections: its keys
    expertSystemClients,  \* ARWizardIntegrationFramework.expertSystemClients: its keys
    cli         \* ARWizardCLI: its platform field, the command it runs, what it printed

ctxVars == <<context, lastPut>>
stores == <<expertise, knowledge, analyses, models, context, lastPut,
           idCount>>
platform == <<status, healthCheckTimer, metricsTimer, intervals, out>>
integration == <<databaseConnections, expertSystemClients>>
(* the state around the memory manager: platform, integration framework, CLI *)
shell == <<platform, integration, cli>>
vars == <<clock, ticks, expertise, knowledge, analyses, models, context,
          lastPut, idCount, proc, status, healthCheckTimer, metricsTimer,
          intervals, out, databaseConnections, expertSystemClients, cli>>

----------------------------------------------------------------------------
(* Bounds of the model *)

MaxTicks == 2

(* ids generateId hands out to database analyses *)
MaxAnalyses == 2

(* ids generateId hands out to predictive models *)
MaxModels == 3

(* ids generateId hands out to expertise records *)
MaxExpertise == 2

(* expertise records stored while callers run concurrently *)
MaxRaced == 1

(* getViewpointExpertise is called while the counts it reads are below this *)
MaxUsage == 2

(* records in an imported snapshot *)
MaxImport == 1

(* ids generateId hands out to knowledge records *)
MaxKnowledge == 2

(* records in an imported snapshot of all four namespaces together *)
MaxSnapshot == 2

(* predictive models stored where their performance is updated *)
MaxUpdated == 2

(* ids generateId hands out where every operation of the manager is used *)
MaxManaged == 2

Procs == {"p1", "p2"}
Domains == {"job-billing", "job-costing"}
ExpertiseTypes == {"sql-procedure", "business-rule"}
ModelTypes == {"billing-prediction", "cost-analysis"}
(* performance.accuracy, in hundredths *)
Accuracies == {80, 92}
(* the accuracies a later validation reports *)
ValidatedAccuracies == {85, 95}
Categories == {"predictive-model", "billing-rule"}
Databases == {"kls", "gbi"}
AnalysisTypes == {"schema-analysis", "performance"}
Keys == {"k1", "k2"}
Data == {"d1", "d2"}

(* ttl?: number -- absent (<<>>) or a number *)
TtlArgs == {<<>>, <<0>>, <<1>>}

(* Program constants *)
DefaultTTL == 3600000

(* 24 * 60 * 60 * 1000 *)
DayMs == 86400000


----------------------------------------------------------------------------
(* The underlying memory (DistributedMemorySystem): a namespace is a       *)
(* function from the stored ids to their records.                          *)

MemStore(ns, id, rec) ==
    [x \in (DOMAIN ns) \cup {id} |-> IF x = id THEN rec ELSE ns[x]]

MemGet(ns, id) == IF id \in DOMAIN ns THEN <<ns[id]>> ELSE <<>>

MemDelete(ns, id) == [x \in (DOMAIN ns) \ {id} |-> ns[x]]

EmptyNs == [x \in {} |-> 0]

(* query(namespace, criteria): the records whose fields equal those of the *)
(* criteria object, as a set; {} matches every record                      *)
MemQuery(ns, criteria) ==
    {ns[x] : x \in {y \in DOMAIN ns :
                       \A f \in DOMAIN criteria : ns[y][f] = criteria[f]}}

(* the criteria object {} *)
NoCriteria == [f \in {} |-> 0]

(* the array a query returns holds the matching records in some order *)
Orderings(S) ==
    {s \in [1..Cardinality(S) -> S] :
        \A a, b \in 1..Cardinality(S) : a # b => s[a] # s[b]}

Range(s) == {s[j] : j \in 1..Len(s)}

----------------------------------------------------------------------------
(* Callers *)

(* pc: the segment to run next; op, arg: the method and its arguments;     *)
(* snap: the records the method holds (a query result, the record it       *)
(* built); i: the loop position in snap; now: the date it last took;       *)
(* ret: what it returned; pre: the namespace as it was at the call         *)
(* (history, read by the properties only).                                 *)
IdleProc ==
    [pc |-> "idle", op |-> "none", arg |-> <<>>, snap |-> <<>>, i |-> 0,
     now |-> 0, ret |-> <<>>, pre |-> <<>>]

BeginWith(p, pcv, opv, argv, snapv, prev) ==
    proc' = [proc EXCEPT ![p] =
                [pc |-> pcv, op |-> opv, arg |-> argv, snap |-> snapv,
                 i |-> 1, now |-> clock, ret |-> <<>>, pre |-> prev]]

Begin(p, pcv, opv, argv, snapv) == BeginWith(p, pcv, opv, argv, snapv, <<>>)

(* the method returns: its locals are gone, its result is kept *)
Finish(p, nowv, retv) ==
    proc' = [proc EXCEPT ![p].pc = "idle", ![p].now = nowv, ![p].ret = retv,
                         ![p].snap = <<>>, ![p].i = 0]

(* the CLI object after construction: no platform, no command running;    *)
(* last: the command that ran last; said: the last line it printed;       *)
(* exited: Deno.exit(1) was called                                        *)
NoCli ==
    [platform |-> FALSE, command |-> "none", last |-> "none", said |-> "",
     exited |-> FALSE]

Init ==
    /\ clock = 0
    /\ ticks = 0
    /\ expertise = EmptyNs
    /\ knowledge = EmptyNs
    /\ analyses = EmptyNs
    /\ models = EmptyNs
    /\ context = EmptyNs
    /\ idCount = 0
    /\ lastPut = [k \in Keys |-> <<>>]
    /\ proc = [p \in Procs |-> IdleProc]
    /\ status = "initializing"
    /\ healthCheckTimer = 0
    /\ metricsTimer = 0
    /\ intervals = {}
    /\ out = <<>>
    /\ databaseConnections = {}
    /\ expertSystemClients = {}
    /\ cli = NoCli

Tick(steps) ==
    /\ ticks < MaxTicks
    /\ \E d \in steps : clock' = clock + d
    /\ ticks' = ticks + 1
    /\ UNCHANGED <<shell, stores, proc>>

----------------------------------------------------------------------------
(* Shared context *)

(* ttl || 3600000 *)
TtlOrDefault(ttl) == IF ttl = <<>> \/ ttl[1] = 0 THEN DefaultTTL ELSE ttl[1]

(* the ttl the caller asked for: its argument, the default when absent *)
RequestedTtl(ttl) == IF ttl = <<>> THEN DefaultTTL ELSE ttl[1]

ContextEntry(data, ttl) ==
    [data |-> data, timestamp |-> clock, ttl |-> TtlOrDefault(ttl)]

(* storeSharedContext: the entry is built, memory.store is awaited *)
StoreSharedContextCall(p, key, data, ttl) ==
    /\ proc[p].pc = "idle"
    /\ Begin(p, "ctx_store", "storeSharedContext", <<key, data, ttl>>,
             <<ContextEntry(data, ttl)>>)
    /\ UNCHANGED <<shell, clock, ticks, stores>>

StoreSharedContextWrite(p) ==
    /\ proc[p].pc = "ctx_store"
    /\ context' = MemStore(context, proc[p].arg[1], proc[p].snap[1])
    /\ lastPut' = [lastPut EXCEPT ![proc[p].arg[1]] =
                     <<[entry |-> proc[p].snap[1],
                        asked |-> RequestedTtl(proc[p].arg[3])]>>]
    /\ Finish(p, proc[p].now, <<>>)
    /\ UNCHANGED <<shell, clock, ticks, knowledge, expertise, analyses, models, idCount>>

(* a slip of the comparison: an entry exactly ttl old counts as expired *)
ExpiredAtBoundary(rec, now) == now - rec.timestamp >= rec.ttl

(* now - recordTime > contextRecord.ttl *)
Expired(rec, now) == now - rec.timestamp > rec.ttl

(* getSharedContext: memory.get is awaited *)
GetSharedContextRead(p, key) ==
    /\ proc[p].pc = "idle"
    /\ Begin(p, "ctx_check", "getSharedContext", <<key>>, MemGet(context, key))
    /\ UNCHANGED <<shell, clock, ticks, stores>>

(* getSharedContext: the continuation of the get *)
GetSharedContextCheck(p) ==
    /\ proc[p].pc = "ctx_check"
    /\ IF proc[p].snap = <<>>
         THEN Finish(p, clock, <<>>)
         ELSE IF Expired(proc[p].snap[1], clock)
                THEN proc' = [proc EXCEPT ![p].pc = "ctx_delete", ![p].now = clock]
                ELSE Finish(p, clock, <<proc[p].snap[1].data>>)
    /\ UNCHANGED <<shell, clock, ticks, stores>>

(* getSharedContext: memory.delete is awaited, then null is returned *)
GetSharedContextDelete(p) ==
    /\ proc[p].pc = "ctx_delete"
    /\ context' = MemDelete(context, proc[p].arg[1])
    /\ Finish(p, proc[p].now, <<>>)
    /\ UNCHANGED <<shell, clock, ticks, knowledge, expertise, analyses, models, idCount, lastPut>>

ContextStep(p) ==
    \/ \E key \in Keys, data \in Data, ttl \in TtlArgs :
          StoreSharedContextCall(p, key, data, ttl)
    \/ StoreSharedContextWrite(p)
    \/ \E key \in Keys : GetSharedContextRead(p, key)
    \/ GetSharedContextCheck(p)
    \/ GetSharedContextDelete(p)

(* one caller at a time on the shared context; the clock advances by a     *)
(* millisecond or by a whole default ttl                                   *)
NextContext == Tick({1, DefaultTTL}) \/ ContextStep("p1")

SpecContext == Init /\ [][NextContext]_vars

----------------------------------------------------------------------------
(* Shared context: properties *)

CtxGetDone(p) == proc[p].pc = "idle" /\ proc[p].op = "getSharedContext"

CtxLast(p) == lastPut[proc[p].arg[1]]

(* C3 as stated: a getSharedContext(key) that runs when now - timestamp    *)
(* exceeds the ttl given to storeSharedContext(key, data, ttl) returns     *)
(* null and leaves no entry under key.                                     *)
C3_ExpiredGetReturnsNullAndDeletes ==
    \A p \in Procs :
        (/\ CtxGetDone(p)
         /\ CtxLast(p) # <<>>
         /\ proc[p].now - CtxLast(p)[1].entry.timestamp > CtxLast(p)[1].asked)
        => (/\ proc[p].ret = <<>>
            /\ MemGet(context, proc[p].arg[1]) = <<>>)

(* The same with the ttl of the stored entry in place of the ttl that was   *)
(* asked for: this holds of every get under SpecContext.                   *)
ExpiredByStoredTtlReturnsNullAndDeletes ==
    \A p \in Procs :
        (/\ CtxGetDone(p)
         /\ CtxLast(p) # <<>>
         /\ proc[p].now - CtxLast(p)[1].entry.timestamp > CtxLast(p)[1].entry.ttl)
        => (/\ proc[p].ret = <<>>
            /\ MemGet(context, proc[p].arg[1]) = <<>>)

(* C4: a getSharedContext(key) that runs when now - timestamp <= ttl of    *)
(* the stored entry (the boundary now - timestamp = ttl included) returns  *)
(* the data last stored under key and leaves the stored entry as it was.   *)
C4_ValidGetReturnsData ==
    \A p \in Procs :
        (/\ CtxGetDone(p)
         /\ CtxLast(p) # <<>>
         /\ proc[p].now - CtxLast(p)[1].entry.timestamp <= CtxLast(p)[1].entry.ttl)
        => (/\ proc[p].ret = <<CtxLast(p)[1].entry.data>>
            /\ MemGet(context, proc[p].arg[1]) = <<CtxLast(p)[1].entry>>)

(* C4 witness: a get at the boundary now - timestamp = ttl returned data   *)
C4_Witness ==
    \E p \in Procs :
        /\ CtxGetDone(p)
        /\ CtxLast(p) # <<>>
        /\ proc[p].now - CtxLast(p)[1].entry.timestamp = CtxLast(p)[1].entry.ttl
        /\ proc[p].ret = <<CtxLast(p)[1].entry.data>>

----------------------------------------------------------------------------
(* Array.prototype.sort with a descending numeric comparator: a stable     *)
(* sort of <<key, value>> entries, greatest key first                      *)

InsertDesc(s, x) ==
    LET n == Cardinality({j \in 1..Len(s) : s[j].k >= x.k})
    IN  SubSeq(s, 1, n) \o <<x>> \o SubSeq(s, n + 1, Len(s))

RECURSIVE SortDesc(_)
SortDesc(s) ==
    IF s = <<>> THEN <<>>
    ELSE InsertDesc(SortDesc(SubSeq(s, 1, Len(s) - 1)), s[Len(s)])

----------------------------------------------------------------------------
(* Database analyses *)

(* query = { database }; if (analysisType) query.analysisType = analysisType *)
AnalysisCriteria(database, analysisType) ==
    IF analysisType = <<>>
      THEN [database |-> database]
      ELSE [database |-> database, analysisType |-> analysisType[1]]

(* a slip of the comparison: a record that expires right now is kept *)
IsLiveOrExpiring(a, now) == a.validUntil >= now

(* analysis.validUntil > now *)
IsLive(a, now) == a.validUntil > now

(* analyses.filter(analysis => analysis.validUntil > now) *)
LiveOnly(snap, now) == SelectSeq(snap, LAMBDA a : IsLive(a, now))

ByAnalyzedAt(snap) == [j \in 1..Len(snap) |-> [k |-> snap[j].analyzedAt, v |-> snap[j]]]

(* a slip of the sort: the oldest first *)
OldestOf(live) ==
    IF live = <<>> THEN <<>>
    ELSE <<SortDesc([j \in 1..Len(live) |->
                        [k |-> 0 - live[j].analyzedAt, v |-> live[j]]])[1].v>>

(* analyses.sort((a, b) => b.analyzedAt - a.analyzedAt); analyses[0] *)
LatestOf(live) ==
    IF live = <<>> THEN <<>> ELSE <<SortDesc(ByAnalyzedAt(live))[1].v>>

(* storeDatabaseAnalysis: the record is built, memory.store is awaited *)
StoreDatabaseAnalysisCall(p, database, analysisType, validFor) ==
    /\ proc[p].pc = "idle"
    /\ idCount < MaxAnalyses
    /\ idCount' = idCount + 1
    /\ Begin(p, "da_store", "storeDatabaseAnalysis", <<idCount + 1>>,
             <<[id |-> idCount + 1, database |-> database,
                analysisType |-> analysisType, analyzedAt |-> clock,
                validUntil |-> clock + validFor]>>)
    /\ UNCHANGED <<shell, clock, ticks, knowledge, expertise, analyses, models, ctxVars>>

StoreDatabaseAnalysisWrite(p) ==
    /\ proc[p].pc = "da_store"
    /\ analyses' = MemStore(analyses, proc[p].arg[1], proc[p].snap[1])
    /\ Finish(p, proc[p].now, <<proc[p].arg[1]>>)
    /\ UNCHANGED <<shell, clock, ticks, knowledge, expertise, models, ctxVars, idCount>>

(* getDatabaseAnalysis: memory.query is awaited *)
GetDatabaseAnalysisQuery(p, database, analysisType) ==
    /\ proc[p].pc = "idle"
    /\ \E ord \in Orderings(MemQuery(analyses,
                      AnalysisCriteria(database, analysisType))) :
          Begin(p, "da_filter", "getDatabaseAnalysis",
                <<database, analysisType>>, ord)
    /\ UNCHANGED <<shell, clock, ticks, stores>>

(* a read that purges, as getSharedContext does: the expired records it    *)
(* found are deleted from the namespace as they are filtered out           *)
GetDatabaseAnalysisFilterPurging(p) ==
    /\ proc[p].pc = "da_filter"
    /\ analyses' = [x \in {y \in DOMAIN analyses :
                              \/ analyses[y] \notin Range(proc[p].snap)
                              \/ IsLive(analyses[y], clock)}
                      |-> analyses[x]]
    /\ Finish(p, clock, LiveOnly(proc[p].snap, clock))
    /\ UNCHANGED <<shell, clock, ticks, knowledge, expertise, models, ctxVars, idCount>>

(* getDatabaseAnalysis: the date is taken, the expired are filtered out *)
GetDatabaseAnalysisFilter(p) ==
    /\ proc[p].pc = "da_filter"
    /\ Finish(p, clock, LiveOnly(proc[p].snap, clock))
    /\ UNCHANGED <<shell, clock, ticks, stores>>

(* getLatestDatabaseAnalysis: getDatabaseAnalysis is awaited *)
GetLatestDatabaseAnalysisQuery(p, database, analysisType) ==
    /\ proc[p].pc = "idle"
    /\ \E ord \in Orderings(MemQuery(analyses,
                      AnalysisCriteria(database, <<analysisType>>))) :
          Begin(p, "la_filter", "getLatestDatabaseAnalysis",
                <<database, <<analysisType>>>>, ord)
    /\ UNCHANGED <<shell, clock, ticks, stores>>

(* getLatestDatabaseAnalysis: the live records are sorted, the head returned *)
GetLatestDatabaseAnalysisSort(p) ==
    /\ proc[p].pc = "la_filter"
    /\ Finish(p, clock, LatestOf(LiveOnly(proc[p].snap, clock)))
    /\ UNCHANGED <<shell, clock, ticks, stores>>

(* a slip of the comparison: a record that expires right now survives *)
SweepsOnlyPast(a, now) == a.validUntil < now

(* analysis.validUntil <= now *)
SweepExpired(a, now) == a.validUntil <= now

(* a slip of the loop: it is left after its first memory.delete *)
NextExpiredOnce(snap, from, now) ==
    LET hits == {j \in 1..Len(snap) : SweepExpired(snap[j], now)}
    IN  IF from > 1 \/ hits = {} THEN 0
        ELSE CHOOSE j \in hits : \A h \in hits : j <= h

(* the next record of the loop, from position from on, that is deleted; 0 if none *)
NextExpired(snap, from, now) ==
    LET hits == {j \in from..Len(snap) : SweepExpired(snap[j], now)}
    IN  IF hits = {} THEN 0 ELSE CHOOSE j \in hits : \A h \in hits : j <= h

(* performMaintenance -> cleanupExpiredAnalyses: memory.query is awaited.  *)
(* pre keeps the namespace as it is at the call, and the method the caller *)
(* ran before with the date that method took.                              *)
CleanupExpiredAnalysesQuery(p) ==
    /\ proc[p].pc = "idle"
    /\ \E ord \in Orderings(MemQuery(analyses, NoCriteria)) :
          BeginWith(p, "sweep", "performMaintenance", <<>>, ord,
                    [analyses |-> analyses, op |-> proc[p].op,
                     now |-> proc[p].now])
    /\ UNCHANGED <<shell, clock, ticks, stores>>

(* cleanupExpiredAnalyses: the date is taken and the loop runs up to its   *)
(* first memory.delete                                                     *)
CleanupExpiredAnalysesScan(p) ==
    /\ proc[p].pc = "sweep"
    /\ LET j == NextExpired(proc[p].snap, 1, clock)
       IN  proc' = [proc EXCEPT ![p].now = clock, ![p].i = j,
                       ![p].pc = IF j = 0 THEN "archive" ELSE "sweep_delete"]
    /\ UNCHANGED <<shell, clock, ticks, stores>>

(* a slip of the namespace: the expired analysis' id is deleted from the   *)
(* predictive models as well                                               *)
CleanupExpiredAnalysesDeleteAcross(p) ==
    /\ proc[p].pc = "sweep_delete"
    /\ analyses' = MemDelete(analyses, proc[p].snap[proc[p].i].id)
    /\ models' = MemDelete(models, proc[p].snap[proc[p].i].id)
    /\ LET j == NextExpired(proc[p].snap, proc[p].i + 1, proc[p].now)
       IN  proc' = [proc EXCEPT ![p].i = j,
                       ![p].pc = IF j = 0 THEN "archive" ELSE "sweep_delete"]
    /\ UNCHANGED <<shell, clock, ticks, knowledge, expertise, ctxVars, idCount>>

(* cleanupExpiredAnalyses: a memory.delete, and the loop up to the next    *)
CleanupExpiredAnalysesDelete(p) ==
    /\ proc[p].pc = "sweep_delete"
    /\ analyses' = MemDelete(analyses, proc[p].snap[proc[p].i].id)
    /\ LET j == NextExpired(proc[p].snap, proc[p].i + 1, proc[p].now)
       IN  proc' = [proc EXCEPT ![p].i = j,
                       ![p].pc = IF j = 0 THEN "archive" ELSE "sweep_delete"]
    /\ UNCHANGED <<shell, clock, ticks, knowledge, expertise, models, ctxVars, idCount>>

(* performMaintenance: archiveOldKnowledge queries and logs,               *)
(* optimizeMemoryUsage logs; nothing is written                            *)
ArchiveOldKnowledge(p) ==
    /\ proc[p].pc = "archive"
    /\ Finish(p, proc[p].now, <<>>)
    /\ UNCHANGED <<shell, clock, ticks, stores>>

(* validity horizons the callers give: validUntil = now + validFor *)
ValidFor == {1, 3}

MaintenanceStep(p) ==
    \/ CleanupExpiredAnalysesQuery(p)
    \/ CleanupExpiredAnalysesScan(p)
    \/ CleanupExpiredAnalysesDelete(p)
    \/ ArchiveOldKnowledge(p)

StoreAnalysisStep(p) ==
    \/ \E database \in Databases, analysisType \in AnalysisTypes, validFor \in ValidFor :
          StoreDatabaseAnalysisCall(p, database, analysisType, validFor)
    \/ StoreDatabaseAnalysisWrite(p)

ReadAnalysisStep(p) ==
    \/ \E database \in Databases,
          analysisType \in {<<>>} \cup {<<t>> : t \in AnalysisTypes} :
          GetDatabaseAnalysisQuery(p, database, analysisType)
    \/ GetDatabaseAnalysisFilter(p)
    \/ \E database \in Databases, analysisType \in AnalysisTypes :
          GetLatestDatabaseAnalysisQuery(p, database, analysisType)
    \/ GetLatestDatabaseAnalysisSort(p)

(* one caller at a time storing and reading database analyses *)
NextAnalysis == Tick({1}) \/ StoreAnalysisStep("p1") \/ ReadAnalysisStep("p1")

SpecAnalysis == Init /\ [][NextAnalysis]_vars

(* one caller at a time storing database analyses and running maintenance *)
NextSweep == Tick({1}) \/ StoreAnalysisStep("p1") \/ MaintenanceStep("p1")

SpecSweep == Init /\ [][NextSweep]_vars

----------------------------------------------------------------------------
(* Database analyses: properties *)

Done(p, method) == proc[p].pc = "idle" /\ proc[p].op = method

StoredAnalyses == {analyses[x] : x \in DOMAIN analyses}

(* C1: every record getDatabaseAnalysis(database, analysisType?) returns   *)
(* has the requested database, has the requested analysisType when one is  *)
(* given, and has validUntil > now, now being the date the call took for   *)
(* its filter.                                                             *)
C1_ReturnsOnlyLiveMatching ==
    \A p \in Procs :
        Done(p, "getDatabaseAnalysis") =>
            \A j \in 1..Len(proc[p].ret) :
                /\ proc[p].ret[j].validUntil > proc[p].now
                /\ proc[p].ret[j].database = proc[p].arg[1]
                /\ (proc[p].arg[2] # <<>> =>
                        proc[p].ret[j].analysisType = proc[p].arg[2][1])

(* C1 witness: a call with an analysisType returned a record while a       *)
(* stored record of the same database and type, expiring exactly at the    *)
(* call's date, was held back                                              *)
C1_Witness ==
    \E p \in Procs :
        /\ Done(p, "getDatabaseAnalysis")
        /\ proc[p].ret # <<>>
        /\ proc[p].arg[2] # <<>>
        /\ \E a \in StoredAnalyses :
              /\ a.database = proc[p].arg[1]
              /\ a.analysisType = proc[p].arg[2][1]
              /\ a.validUntil = proc[p].now

(* the stored records that are live at now and have the database and type *)
LiveMatching(database, analysisType, now) ==
    {a \in StoredAnalyses :
        /\ a.database = database
        /\ a.analysisType = analysisType
        /\ a.validUntil > now}

(* C9: getLatestDatabaseAnalysis(database, analysisType) returns null iff  *)
(* no stored record of that database and type is live; otherwise it        *)
(* returns a live matching record whose analyzedAt no other live matching  *)
(* record exceeds -- expired records never count.                          *)
C9_LatestIsNewestLive ==
    \A p \in Procs :
        Done(p, "getLatestDatabaseAnalysis") =>
            LET live == LiveMatching(proc[p].arg[1], proc[p].arg[2][1], proc[p].now)
            IN  /\ (proc[p].ret = <<>>) <=> (live = {})
                /\ proc[p].ret # <<>> =>
                      /\ proc[p].ret[1] \in live
                      /\ \A a \in live : a.analyzedAt <= proc[p].ret[1].analyzedAt

(* C9 witness: a record was returned although an expired record of the     *)
(* same database and type has a later analyzedAt                           *)
C9_Witness ==
    \E p \in Procs :
        /\ Done(p, "getLatestDatabaseAnalysis")
        /\ proc[p].ret # <<>>
        /\ \E a \in StoredAnalyses :
              /\ a.database = proc[p].arg[1]
              /\ a.analysisType = proc[p].arg[2][1]
              /\ a.validUntil <= proc[p].now
              /\ a.analyzedAt > proc[p].ret[1].analyzedAt

(* C10 as stated, for getLatestDatabaseAnalysis: with the store and the    *)
(* clock fixed, the record returned is the one the call would return for   *)
(* any other order in which the query may hand over the same records.      *)
C10_LatestIndependentOfQueryOrder ==
    \A p \in Procs :
        Done(p, "getLatestDatabaseAnalysis") =>
            \A ord \in Orderings(MemQuery(analyses,
                          AnalysisCriteria(proc[p].arg[1], proc[p].arg[2]))) :
                LatestOf(LiveOnly(ord, proc[p].now)) = proc[p].ret

SweepDone(p) ==
    /\ proc[p].op = "performMaintenance"
    /\ proc[p].pc \in {"archive", "idle"}

(* C2: once the sweep of performMaintenance has completed, no record of    *)
(* the database-analysis namespace has validUntil <= now, now being the    *)
(* date the sweep took.                                                    *)
C2_NoExpiredAfterSweep ==
    \A p \in Procs :
        SweepDone(p) =>
            \A x \in DOMAIN analyses : analyses[x].validUntil > proc[p].now

(* C2 witness: a sweep that found a record expiring exactly at its date    *)
(* has just completed, and a live record is still stored                   *)
C2_Witness ==
    \E p \in Procs :
        /\ SweepDone(p)
        /\ proc[p].pc = "archive"
        /\ \E j \in 1..Len(proc[p].snap) : proc[p].snap[j].validUntil = proc[p].now
        /\ analyses # EmptyNs

----------------------------------------------------------------------------
(* Predictive models *)

ByAccuracy(snap) ==
    [j \in 1..Len(snap) |-> [k |-> snap[j].performance.accuracy, v |-> snap[j]]]

(* a slip of the comparator: a.performance.accuracy - b.performance.accuracy *)
WorstOf(snap) ==
    IF snap = <<>> THEN <<>>
    ELSE <<SortDesc([j \in 1..Len(snap) |->
                        [k |-> 0 - snap[j].performance.accuracy, v |-> snap[j]]])[1].v>>

(* models.sort((a, b) => b.performance.accuracy - a.performance.accuracy); *)
(* models[0]                                                               *)
BestOf(snap) ==
    IF snap = <<>> THEN <<>> ELSE <<SortDesc(ByAccuracy(snap))[1].v>>

(* storePredictiveModel: the record is built, memory.store is awaited *)
StorePredictiveModelCall(p, type, accuracy) ==
    /\ proc[p].pc = "idle"
    /\ idCount < MaxModels
    /\ idCount' = idCount + 1
    /\ Begin(p, "pm_store", "storePredictiveModel", <<idCount + 1>>,
             <<[id |-> idCount + 1, name |-> "model", type |-> type,
                performance |-> [accuracy |-> accuracy],
                trainedAt |-> clock, lastValidated |-> clock]>>)
    /\ UNCHANGED <<shell, clock, ticks, knowledge, expertise, analyses, models, ctxVars>>

StorePredictiveModelWrite(p) ==
    /\ proc[p].pc = "pm_store"
    /\ models' = MemStore(models, proc[p].arg[1], proc[p].snap[1])
    /\ Finish(p, proc[p].now, <<proc[p].arg[1]>>)
    /\ UNCHANGED <<shell, clock, ticks, knowledge, expertise, analyses, ctxVars, idCount>>

(* getBestPredictiveModel -> getPredictiveModel(type): memory.query is awaited *)
GetBestPredictiveModelQuery(p, type) ==
    /\ proc[p].pc = "idle"
    /\ \E ord \in Orderings(MemQuery(models, [type |-> type])) :
          Begin(p, "pm_sort", "getBestPredictiveModel", <<type>>, ord)
    /\ UNCHANGED <<shell, clock, ticks, stores>>

(* getBestPredictiveModel: the models are sorted, the head returned *)
GetBestPredictiveModelSort(p) ==
    /\ proc[p].pc = "pm_sort"
    /\ Finish(p, proc[p].now, BestOf(proc[p].snap))
    /\ UNCHANGED <<shell, clock, ticks, stores>>

ModelStep(p) ==
    \/ \E type \in ModelTypes, accuracy \in Accuracies :
          StorePredictiveModelCall(p, type, accuracy)
    \/ StorePredictiveModelWrite(p)
    \/ \E type \in ModelTypes : GetBestPredictiveModelQuery(p, type)
    \/ GetBestPredictiveModelSort(p)

(* one caller at a time on the predictive models *)
NextModels == ModelStep("p1")

SpecModels == Init /\ [][NextModels]_vars

----------------------------------------------------------------------------
(* Predictive models: properties *)

StoredModels == {models[x] : x \in DOMAIN models}

(* C8: getBestPredictiveModel(type) returns null iff no model of that type *)
(* is stored; otherwise it returns a stored model of that type whose       *)
(* performance.accuracy no other stored model of the type exceeds.         *)
C8_BestIsMostAccurateOfType ==
    \A p \in Procs :
        Done(p, "getBestPredictiveModel") =>
            LET ofType == {m \in StoredModels : m.type = proc[p].arg[1]}
            IN  /\ (proc[p].ret = <<>>) <=> (ofType = {})
                /\ proc[p].ret # <<>> =>
                      /\ proc[p].ret[1] \in ofType
                      /\ \A m \in ofType :
                            m.performance.accuracy <= proc[p].ret[1].performance.accuracy

(* C8 witness: with models of accuracy 0.80 and 0.92 of the type and a     *)
(* model of another type stored, the 0.92 model was returned               *)
C8_Witness ==
    \E p \in Procs :
        /\ Done(p, "getBestPredictiveModel")
        /\ proc[p].ret # <<>>
        /\ proc[p].ret[1].performance.accuracy = 92
        /\ \E m \in StoredModels :
              m.type = proc[p].arg[1] /\ m.performance.accuracy = 80
        /\ \E m \in StoredModels : m.type # proc[p].arg[1]

(* C10 for getBestPredictiveModel (checked under SpecModels): the model    *)
(* returned does not depend on the order the query hands the models over   *)
C10_BestIndependentOfQueryOrder ==
    \A p \in Procs :
        Done(p, "getBestPredictiveModel") =>
            \A ord \in Orderings(MemQuery(models, [type |-> proc[p].arg[1]])) :
                BestOf(ord) = proc[p].ret

----------------------------------------------------------------------------
(* Viewpoint expertise *)

(* { domain, ...(type && { type }) } *)
ExpertiseCriteria(domain, type) ==
    IF type = <<>>
      THEN [domain |-> domain]
      ELSE [domain |-> domain, type |-> type[1]]

(* a slip of the loop: the record is written back as it was read *)
Uncounted(e) == e

(* expertise.usageCount++ on the caller's copy of the record *)
Incremented(e) == [e EXCEPT !.usageCount = @ + 1]

(* storeViewpointExpertise: the record is built, memory.store is awaited *)
StoreViewpointExpertiseCall(p, type, domain) ==
    /\ proc[p].pc = "idle"
    /\ idCount < MaxExpertise
    /\ idCount' = idCount + 1
    /\ Begin(p, "ex_store", "storeViewpointExpertise", <<idCount + 1>>,
             <<[id |-> idCount + 1, type |-> type, domain |-> domain,
                usageCount |-> 0]>>)
    /\ UNCHANGED <<shell, clock, ticks, knowledge, expertise, analyses, models, ctxVars>>

StoreViewpointExpertiseWrite(p) ==
    /\ proc[p].pc = "ex_store"
    /\ expertise' = MemStore(expertise, proc[p].arg[1], proc[p].snap[1])
    /\ Finish(p, proc[p].now, <<proc[p].arg[1]>>)
    /\ UNCHANGED <<shell, clock, ticks, knowledge, analyses, models, ctxVars, idCount>>

(* getViewpointExpertise: memory.query is awaited; with nothing found the  *)
(* loop is empty and the empty array is returned                           *)
GetViewpointExpertiseQuery(p, domain, type) ==
    /\ proc[p].pc = "idle"
    /\ LET found == MemQuery(expertise, ExpertiseCriteria(domain, type))
       IN  /\ \A e \in found : e.usageCount < MaxUsage
           /\ \E ord \in Orderings(found) :
                 proc' = [proc EXCEPT ![p] =
                    [pc |-> IF ord = <<>> THEN "idle" ELSE "ex_count",
                     op |-> "getViewpointExpertise", arg |-> <<domain, type>>,
                     snap |-> ord, i |-> 1, now |-> clock,
                     ret |-> <<>>, pre |-> expertise]]
    /\ UNCHANGED <<shell, clock, ticks, stores>>

(* the loop with the i-th record written from the store's current count:   *)
(* an atomic increment in the memory, not the code's write of its copy     *)
GetViewpointExpertiseStoreAtomic(p) ==
    /\ proc[p].pc = "ex_count"
    /\ LET e == proc[p].snap[proc[p].i]
           cur == IF e.id \in DOMAIN expertise THEN expertise[e.id] ELSE e
           counted == [e EXCEPT !.usageCount = cur.usageCount + 1]
           held == [proc[p].snap EXCEPT ![proc[p].i] = counted]
       IN  /\ expertise' = MemStore(expertise, e.id, counted)
           /\ IF proc[p].i = Len(proc[p].snap)
                THEN Finish(p, proc[p].now, held)
                ELSE proc' = [proc EXCEPT ![p].snap = held, ![p].i = @ + 1]
    /\ UNCHANGED <<shell, clock, ticks, knowledge, analyses, models, ctxVars, idCount>>

(* getViewpointExpertise, one turn of the loop: the i-th record is counted *)
(* on the caller's copy and memory.store is awaited; after the last, the   *)
(* array of counted copies is returned                                     *)
GetViewpointExpertiseStore(p) ==
    /\ proc[p].pc = "ex_count"
    /\ LET counted == Incremented(proc[p].snap[proc[p].i])
           held == [proc[p].snap EXCEPT ![proc[p].i] = counted]
       IN  /\ expertise' = MemStore(expertise, counted.id, counted)
           /\ IF proc[p].i = Len(proc[p].snap)
                THEN Finish(p, proc[p].now, held)
                ELSE proc' = [proc EXCEPT ![p].snap = held, ![p].i = @ + 1]
    /\ UNCHANGED <<shell, clock, ticks, knowledge, analyses, models, ctxVars, idCount>>

ExpertiseStep(p) ==
    \/ \E type \in ExpertiseTypes, domain \in Domains :
          StoreViewpointExpertiseCall(p, type, domain)
    \/ StoreViewpointExpertiseWrite(p)
    \/ \E domain \in Domains, type \in {<<>>} \cup {<<t>> : t \in ExpertiseTypes} :
          GetViewpointExpertiseQuery(p, domain, type)
    \/ GetViewpointExpertiseStore(p)

(* one caller at a time on the expertise *)
NextExpertiseSeq == ExpertiseStep("p1")

SpecExpertiseSeq == Init /\ [][NextExpertiseSeq]_vars

----------------------------------------------------------------------------
(* AR Wizard knowledge *)

(* a slip of the loop: the whole record is stamped, createdAt included *)
Recreated(k, now) == [k EXCEPT !.lastUsed = now, !.createdAt = now]

(* item.lastUsed = new Date() on the caller's copy of the record *)
Touched(k, now) == [k EXCEPT !.lastUsed = now]

(* storeARWizardKnowledge: the record is built, memory.store is awaited *)
StoreARWizardKnowledgeCall(p, category) ==
    /\ proc[p].pc = "idle"
    /\ idCount < MaxKnowledge
    /\ idCount' = idCount + 1
    /\ Begin(p, "kn_store", "storeARWizardKnowledge", <<idCount + 1>>,
             <<[id |-> idCount + 1, category |-> category,
                createdAt |-> clock, lastUsed |-> clock]>>)
    /\ UNCHANGED <<shell, clock, ticks, expertise, knowledge, analyses, models, ctxVars>>

StoreARWizardKnowledgeWrite(p) ==
    /\ proc[p].pc = "kn_store"
    /\ knowledge' = MemStore(knowledge, proc[p].arg[1], proc[p].snap[1])
    /\ Finish(p, proc[p].now, <<proc[p].arg[1]>>)
    /\ UNCHANGED <<shell, clock, ticks, expertise, analyses, models, ctxVars, idCount>>

(* getARWizardKnowledge: memory.query is awaited; with nothing found the   *)
(* loop is empty and the empty array is returned.  pre keeps the namespace *)
(* and the date of the call.                                               *)
GetARWizardKnowledgeQuery(p, category) ==
    /\ proc[p].pc = "idle"
    /\ \E ord \in Orderings(MemQuery(knowledge, [category |-> category])) :
          BeginWith(p, IF ord = <<>> THEN "idle" ELSE "kn_touch",
                    "getARWizardKnowledge", <<category>>, ord,
                    [before |-> knowledge, at |-> clock])
    /\ UNCHANGED <<shell, clock, ticks, stores>>

(* getARWizardKnowledge, one turn of the loop: the i-th record takes the   *)
(* date of this turn on the caller's copy and memory.store is awaited;     *)
(* after the last, the array of stamped copies is returned                 *)
GetARWizardKnowledgeStore(p) ==
    /\ proc[p].pc = "kn_touch"
    /\ LET item == Touched(proc[p].snap[proc[p].i], clock)
           held == [proc[p].snap EXCEPT ![proc[p].i] = item]
       IN  /\ knowledge' = MemStore(knowledge, item.id, item)
           /\ IF proc[p].i = Len(proc[p].snap)
                THEN Finish(p, clock, held)
                ELSE proc' = [proc EXCEPT ![p].snap = held, ![p].i = @ + 1]
    /\ UNCHANGED <<shell, clock, ticks, expertise, analyses, models, ctxVars, idCount>>

KnowledgeStep(p) ==
    \/ \E category \in Categories : StoreARWizardKnowledgeCall(p, category)
    \/ StoreARWizardKnowledgeWrite(p)
    \/ \E category \in Categories : GetARWizardKnowledgeQuery(p, category)
    \/ GetARWizardKnowledgeStore(p)

(* one caller at a time on the knowledge, and time passing *)
NextKnowledge == Tick({1}) \/ KnowledgeStep("p1")

SpecKnowledge == Init /\ [][NextKnowledge]_vars

----------------------------------------------------------------------------
(* Import of a knowledge base *)

SeqsUpTo(S, n) == UNION {[1..k -> S] : k \in 0..n}

Tagged(tag, recs) == [j \in 1..Len(recs) |-> <<tag, recs[j]>>]

(* an import that leaves the predictive models out *)
ImportEntriesWithoutModels(data) ==
    Tagged("expertise", data.viewpointExpertise)
        \o Tagged("knowledge", data.arWizardKnowledge)
        \o Tagged("analysis", data.databaseAnalyses)

(* the stores importKnowledgeBase makes, in the order of its loops *)
ImportEntries(data) ==
    Tagged("expertise", data.viewpointExpertise)
        \o Tagged("knowledge", data.arWizardKnowledge)
        \o Tagged("analysis", data.databaseAnalyses)
        \o Tagged("model", data.predictiveModels)

(* the five namespaces, as history for the properties *)
Namespaces ==
    [expertise |-> expertise, knowledge |-> knowledge, analyses |-> analyses,
     models |-> models, context |-> context]

(* importKnowledgeBase: the loops run up to their first memory.store *)
ImportKnowledgeBaseCall(p, data) ==
    /\ proc[p].pc = "idle"
    /\ BeginWith(p, IF ImportEntries(data) = <<>> THEN "idle" ELSE "import",
                 "importKnowledgeBase", <<data>>, ImportEntries(data),
                 Namespaces)
    /\ UNCHANGED <<shell, clock, ticks, stores>>

(* a restore that replaces: the record is stored into a namespace emptied *)
(* of what it held                                                        *)
ImportKnowledgeBaseStoreReplacing(p) ==
    /\ proc[p].pc = "import"
    /\ LET tag == proc[p].snap[proc[p].i][1]
           rec == proc[p].snap[proc[p].i][2]
           Put(ns, t) == IF tag = t THEN MemStore(EmptyNs, rec.id, rec) ELSE ns
       IN  /\ expertise' = Put(expertise, "expertise")
           /\ knowledge' = Put(knowledge, "knowledge")
           /\ analyses' = Put(analyses, "analysis")
           /\ models' = Put(models, "model")
    /\ IF proc[p].i = Len(proc[p].snap)
         THEN proc' = [proc EXCEPT ![p].pc = "idle", ![p].i = 0]
         ELSE proc' = [proc EXCEPT ![p].i = @ + 1]
    /\ UNCHANGED <<shell, clock, ticks, ctxVars, idCount>>

(* importKnowledgeBase: one memory.store, and the loops up to the next *)
ImportKnowledgeBaseStore(p) ==
    /\ proc[p].pc = "import"
    /\ LET tag == proc[p].snap[proc[p].i][1]
           rec == proc[p].snap[proc[p].i][2]
       IN  /\ expertise' = IF tag = "expertise"
                             THEN MemStore(expertise, rec.id, rec) ELSE expertise
           /\ knowledge' = IF tag = "knowledge"
                             THEN MemStore(knowledge, rec.id, rec) ELSE knowledge
           /\ analyses' = IF tag = "analysis"
                            THEN MemStore(analyses, rec.id, rec) ELSE analyses
           /\ models' = IF tag = "model"
                          THEN MemStore(models, rec.id, rec) ELSE models
    /\ IF proc[p].i = Len(proc[p].snap)
         THEN proc' = [proc EXCEPT ![p].pc = "idle", ![p].i = 0]
         ELSE proc' = [proc EXCEPT ![p].i = @ + 1]
    /\ UNCHANGED <<shell, clock, ticks, ctxVars, idCount>>

(* snapshots of the expertise namespace taken from this store earlier or   *)
(* edited since: stored records with some usageCount                       *)
ExpertiseSnapshots ==
    {[viewpointExpertise |-> recs, arWizardKnowledge |-> <<>>,
      databaseAnalyses |-> <<>>, predictiveModels |-> <<>>] :
        recs \in SeqsUpTo({[expertise[x] EXCEPT !.usageCount = c] :
                              x \in DOMAIN expertise, c \in 0..MaxUsage},
                          MaxImport)}

----------------------------------------------------------------------------
(* Concurrent callers on the expertise *)

RaceStep(p) ==
    \/ /\ idCount < MaxRaced
       /\ \E type \in ExpertiseTypes, domain \in Domains :
             StoreViewpointExpertiseCall(p, type, domain)
    \/ StoreViewpointExpertiseWrite(p)
    \/ \E domain \in Domains, type \in {<<>>} \cup {<<t>> : t \in ExpertiseTypes} :
          GetViewpointExpertiseQuery(p, domain, type)
    \/ GetViewpointExpertiseStore(p)

(* concurrent callers storing and reading expertise *)
NextExpertiseRace == \E p \in Procs : RaceStep(p)

SpecExpertiseRace == Init /\ [][NextExpertiseRace]_vars

(* concurrent callers storing and reading expertise, one of them also      *)
(* importing expertise, the other running maintenance over analyses that   *)
(* expire                                                                  *)
NextExpertise ==
    \/ Tick({1})
    \/ \E p \in Procs : RaceStep(p)
    \/ \E data \in ExpertiseSnapshots : ImportKnowledgeBaseCall("p2", data)
    \/ ImportKnowledgeBaseStore("p2")
    \/ StoreDatabaseAnalysisCall("p1", "kls", "schema-analysis", 1)
    \/ StoreDatabaseAnalysisWrite("p1")
    \/ MaintenanceStep("p1")

SpecExpertise == Init /\ [][NextExpertise]_vars

----------------------------------------------------------------------------
(* Viewpoint expertise: properties *)

RECURSIVE SumOfCounts(_, _)
SumOfCounts(ns, ids) ==
    IF ids = {} THEN 0
    ELSE LET x == CHOOSE y \in ids : TRUE
         IN  ns[x].usageCount + SumOfCounts(ns, ids \ {x})

TotalUsage(ns) == SumOfCounts(ns, DOMAIN ns)

(* the ids of the records a finished getViewpointExpertise returned *)
Returned(p) == {proc[p].ret[j].id : j \in 1..Len(proc[p].ret)}

(* C5: with one caller at a time, a call getViewpointExpertise(domain,     *)
(* type?) returns the records of the domain (and type), leaves each of     *)
(* them stored with its usageCount raised by exactly 1, changes no other   *)
(* record, and so raises the total usageCount of the namespace by the      *)
(* number of records it returned.                                          *)
C5_EachReturnedCountedOnce ==
    \A p \in Procs :
        Done(p, "getViewpointExpertise") =>
            LET before == proc[p].pre
                asked(e) == /\ e.domain = proc[p].arg[1]
                            /\ (proc[p].arg[2] # <<>> => e.type = proc[p].arg[2][1])
            IN  /\ DOMAIN expertise = DOMAIN before
                /\ Returned(p) = {x \in DOMAIN before : asked(before[x])}
                /\ Cardinality(Returned(p)) = Len(proc[p].ret)
                /\ \A j \in 1..Len(proc[p].ret) :
                      proc[p].ret[j] = expertise[proc[p].ret[j].id]
                /\ \A x \in DOMAIN before :
                      expertise[x] =
                          IF x \in Returned(p)
                            THEN [before[x] EXCEPT !.usageCount = @ + 1]
                            ELSE before[x]
                /\ TotalUsage(expertise) = TotalUsage(before) + Len(proc[p].ret)

(* C5 witness: a call returned a record for the second time, and a record  *)
(* it did not return is stored                                             *)
C5_Witness ==
    \E p \in Procs :
        /\ Done(p, "getViewpointExpertise")
        /\ \E j \in 1..Len(proc[p].ret) : proc[p].ret[j].usageCount = 2
        /\ DOMAIN expertise # Returned(p)

(* C6 as stated: no step takes the stored usageCount of an existing        *)
(* expertise record to a smaller value.                                    *)
C6_UsageCountNeverDecreases ==
    [][\A x \in (DOMAIN expertise) \cap (DOMAIN expertise') :
          expertise'[x].usageCount >= expertise[x].usageCount]_vars

(* C7: two getViewpointExpertise calls that both read record x with the    *)
(* same usageCount c and have both finished leave x stored with c + 1:     *)
(* both wrote c + 1, both returned c + 1, one increment is lost.           *)
C7_LostUpdate ==
    \A p, q \in Procs :
        (/\ p # q
         /\ Done(p, "getViewpointExpertise")
         /\ Done(q, "getViewpointExpertise"))
        => \A x \in Returned(p) \cap Returned(q) :
              proc[p].pre[x].usageCount = proc[q].pre[x].usageCount
                  => /\ expertise[x].usageCount = proc[p].pre[x].usageCount + 1
                     /\ \A j \in 1..Len(proc[p].ret) :
                           proc[p].ret[j].id = x =>
                              proc[p].ret[j].usageCount = proc[p].pre[x].usageCount + 1

(* C7 witness: two finished calls read the same record at the same count   *)
(* and the stored count is 1 higher, not 2                                 *)
C7_Witness ==
    \E p, q \in Procs :
        /\ p # q
        /\ Done(p, "getViewpointExpertise")
        /\ Done(q, "getViewpointExpertise")
        /\ \E x \in Returned(p) \cap Returned(q) :
              /\ proc[p].pre[x].usageCount = proc[q].pre[x].usageCount
              /\ expertise[x].usageCount = proc[p].pre[x].usageCount + 1

----------------------------------------------------------------------------
(* Import into a store that holds records: a merge *)

(* the records a snapshot may carry, per namespace: ids the store may hold *)
(* already or not, with contents that differ from what the store writes    *)
ImportedExpertise ==
    {[id |-> 1, type |-> "sql-procedure", domain |-> "job-billing",
      usageCount |-> c] : c \in {1, 2}}
        \cup {[id |-> 2, type |-> "business-rule", domain |-> "job-billing",
               usageCount |-> 1]}

ImportedKnowledge ==
    {[id |-> 1, category |-> "billing-rule", createdAt |-> 0,
      lastUsed |-> u] : u \in {1, 2}}
        \cup {[id |-> 2, category |-> "test-case", createdAt |-> 0,
               lastUsed |-> 1]}

ImportedAnalyses ==
    {[id |-> 1, database |-> "kls", analysisType |-> "schema-analysis",
      analyzedAt |-> 0, validUntil |-> v] : v \in {0, 5}}
        \cup {[id |-> 2, database |-> "gbi", analysisType |-> "performance",
               analyzedAt |-> 0, validUntil |-> 5]}

ImportedModels ==
    {[id |-> 1, name |-> "model", type |-> "billing-prediction",
      performance |-> [accuracy |-> a], trainedAt |-> 0,
      lastValidated |-> 0] : a \in {85, 95}}
        \cup {[id |-> 2, name |-> "model", type |-> "cost-analysis",
               performance |-> [accuracy |-> 85], trainedAt |-> 0,
               lastValidated |-> 0]}

(* importKnowledgeBase(data) with at most MaxSnapshot records in data *)
ImportSnapshot(p) ==
    \E n \in [1..4 -> 0..MaxSnapshot] :
        /\ n[1] + n[2] + n[3] + n[4] <= MaxSnapshot
        /\ \E e \in [1..n[1] -> ImportedExpertise],
              k \in [1..n[2] -> ImportedKnowledge],
              a \in [1..n[3] -> ImportedAnalyses],
              m \in [1..n[4] -> ImportedModels] :
                ImportKnowledgeBaseCall(p,
                    [viewpointExpertise |-> e, arWizardKnowledge |-> k,
                     databaseAnalyses |-> a, predictiveModels |-> m])

(* what the store holds before an import or an export: one record of each  *)
(* kind the manager's own operations write                                 *)
FillNew(p) ==
    \/ StoreViewpointExpertiseCall(p, "sql-procedure", "job-billing")
    \/ StoreARWizardKnowledgeCall(p, "billing-rule")
    \/ StoreDatabaseAnalysisCall(p, "kls", "schema-analysis", 1)
    \/ StorePredictiveModelCall(p, "billing-prediction", 80)

FillWrite(p) ==
    \/ StoreViewpointExpertiseWrite(p)
    \/ StoreARWizardKnowledgeWrite(p)
    \/ StoreDatabaseAnalysisWrite(p)
    \/ StorePredictiveModelWrite(p)

FillStep(p) ==
    \/ FillNew(p)
    \/ FillWrite(p)
    \/ StoreSharedContextCall(p, "k1", "d1", <<1>>)
    \/ StoreSharedContextWrite(p)

(* one caller filling the store and then importing a snapshot *)
NextImport ==
    \/ /\ proc["p1"].op # "importKnowledgeBase"
       /\ \/ FillStep("p1")
          \/ ImportSnapshot("p1")
    \/ ImportKnowledgeBaseStore("p1")

SpecImport == Init /\ [][NextImport]_vars

SnapshotIds(recs) == {recs[j].id : j \in 1..Len(recs)}

(* the record a snapshot array leaves under an id: its last with that id *)
LastWithId(recs, id) ==
    recs[CHOOSE j \in 1..Len(recs) :
            /\ recs[j].id = id
            /\ \A k \in (j + 1)..Len(recs) : recs[k].id # id]

Merged(before, after, recs) ==
    /\ DOMAIN after = (DOMAIN before) \cup SnapshotIds(recs)
    /\ \A id \in DOMAIN after :
          after[id] = IF id \in SnapshotIds(recs)
                        THEN LastWithId(recs, id) ELSE before[id]

(* C11: when importKnowledgeBase has completed, each of the four primary   *)
(* namespaces holds, under every id of the snapshot, the snapshot's record *)
(* and, under every other id it held at the call, the record it held; no   *)
(* id is gone, and the shared context is as it was.                        *)
C11_ImportIsMerge ==
    \A p \in Procs :
        Done(p, "importKnowledgeBase") =>
            LET data == proc[p].arg[1]
                pre == proc[p].pre
            IN  /\ Merged(pre.expertise, expertise, data.viewpointExpertise)
                /\ Merged(pre.knowledge, knowledge, data.arWizardKnowledge)
                /\ Merged(pre.analyses, analyses, data.databaseAnalyses)
                /\ Merged(pre.models, models, data.predictiveModels)
                /\ context = pre.context

(* an import that overwrote one stored expertise record with a different   *)
(* one, left another alone, added a record under a new id to some          *)
(* namespace, next to a shared context that holds an entry                 *)
C11_Witness ==
    /\ Done("p1", "importKnowledgeBase")
    /\ LET data == proc["p1"].arg[1]
           pre == proc["p1"].pre
           ids == SnapshotIds(data.viewpointExpertise)
       IN  /\ \E id \in ids \cap DOMAIN pre.expertise :
                  expertise[id] # pre.expertise[id]
           /\ (DOMAIN pre.expertise) \ ids # {}
           /\ \/ DOMAIN knowledge # DOMAIN pre.knowledge
              \/ DOMAIN analyses # DOMAIN pre.analyses
              \/ DOMAIN models # DOMAIN pre.models
           /\ DOMAIN pre.context # {}

----------------------------------------------------------------------------
(* Export of the knowledge base *)

(* the array a query of the whole namespace returns *)
WholeNamespace(ns) == Orderings(MemQuery(ns, NoCriteria))

(* exportKnowledgeBase: the query of the expertise is awaited; snap        *)
(* gathers the arrays of export_data as the queries return                 *)
ExportKnowledgeBaseCall(p) ==
    /\ proc[p].pc = "idle"
    /\ \E ord \in WholeNamespace(expertise) :
          BeginWith(p, "export", "exportKnowledgeBase", <<>>, <<ord>>,
                    Namespaces)
    /\ UNCHANGED <<shell, clock, ticks, stores>>

(* an export of what is still valid: expired analyses are left out *)
ExportKnowledgeBaseQueryValid(p) ==
    /\ proc[p].pc = "export"
    /\ LET ns == CASE proc[p].i = 1 -> knowledge
                   [] proc[p].i = 2 ->
                        [x \in {y \in DOMAIN analyses :
                                   analyses[y].validUntil > clock}
                            |-> analyses[x]]
                   [] proc[p].i = 3 -> models
       IN  \E ord \in WholeNamespace(ns) :
              proc' = [proc EXCEPT ![p].snap = Append(@, ord),
                                   ![p].i = @ + 1,
                                   ![p].pc = IF proc[p].i = 3
                                               THEN "export_return"
                                               ELSE "export"]
    /\ UNCHANGED <<shell, clock, ticks, stores>>

(* exportKnowledgeBase: the next query is awaited -- the knowledge, the    *)
(* analyses, the models, in this order                                     *)
ExportKnowledgeBaseQuery(p) ==
    /\ proc[p].pc = "export"
    /\ LET ns == CASE proc[p].i = 1 -> knowledge
                   [] proc[p].i = 2 -> analyses
                   [] proc[p].i = 3 -> models
       IN  \E ord \in WholeNamespace(ns) :
              proc' = [proc EXCEPT ![p].snap = Append(@, ord),
                                   ![p].i = @ + 1,
                                   ![p].pc = IF proc[p].i = 3
                                               THEN "export_return"
                                               ELSE "export"]
    /\ UNCHANGED <<shell, clock, ticks, stores>>

(* exportKnowledgeBase: exportedAt is taken and export_data is returned *)
ExportKnowledgeBaseReturn(p) ==
    /\ proc[p].pc = "export_return"
    /\ Finish(p, clock,
              <<[viewpointExpertise |-> proc[p].snap[1],
                 arWizardKnowledge |-> proc[p].snap[2],
                 databaseAnalyses |-> proc[p].snap[3],
                 predictiveModels |-> proc[p].snap[4],
                 exportedAt |-> clock]>>)
    /\ UNCHANGED <<shell, clock, ticks, stores>>

ExportStep(p) ==
    \/ ExportKnowledgeBaseCall(p)
    \/ ExportKnowledgeBaseQuery(p)
    \/ ExportKnowledgeBaseReturn(p)

(* one caller filling the store and exporting it, and time passing *)
NextExport == Tick({1}) \/ FillStep("p1") \/ ExportStep("p1")

SpecExport == Init /\ [][NextExport]_vars

(* the array holds every record of the namespace, each once *)
HoldsExactly(array, ns) ==
    /\ Range(array) = {ns[x] : x \in DOMAIN ns}
    /\ Len(array) = Cardinality(DOMAIN ns)

(* C12: exportKnowledgeBase returns, for each of the four primary          *)
(* namespaces, exactly the records stored in it, expired analyses          *)
(* included, and leaves every namespace as it was at the call.             *)
C12_ExportIsWholeAndReadOnly ==
    \A p \in Procs :
        Done(p, "exportKnowledgeBase") =>
            LET data == proc[p].ret[1]
            IN  /\ HoldsExactly(data.viewpointExpertise, expertise)
                /\ HoldsExactly(data.arWizardKnowledge, knowledge)
                /\ HoldsExactly(data.databaseAnalyses, analyses)
                /\ HoldsExactly(data.predictiveModels, models)
                /\ Namespaces = proc[p].pre

(* an export that carries an expired analysis and a record of another kind *)
C12_Witness ==
    /\ Done("p1", "exportKnowledgeBase")
    /\ LET data == proc["p1"].ret[1]
       IN  /\ \E j \in 1..Len(data.databaseAnalyses) :
                  data.databaseAnalyses[j].validUntil <= data.exportedAt
           /\ Len(data.viewpointExpertise) + Len(data.arWizardKnowledge)
                 + Len(data.predictiveModels) > 0

----------------------------------------------------------------------------
(* The sweep, run again *)

(* C13: a sweep that follows a sweep of the same caller, with no writer in *)
(* between and with the same date taken, leaves the analyses as the first  *)
(* left them; a sweep of a namespace that holds no record expired at the   *)
(* date it takes leaves the analyses as they were.                         *)
C13_SweepIdempotent ==
    \A p \in Procs :
        SweepDone(p) =>
            LET pre == proc[p].pre
            IN  /\ (pre.op = "performMaintenance" /\ pre.now = proc[p].now)
                      => analyses = pre.analyses
                /\ (\A x \in DOMAIN pre.analyses :
                       pre.analyses[x].validUntil > proc[p].now)
                      => analyses = pre.analyses

(* a second sweep at the date of the first, over analyses of which some    *)
(* were swept and some are still valid                                     *)
C13_Witness ==
    /\ SweepDone("p1")
    /\ proc["p1"].pc = "idle"
    /\ proc["p1"].pre.op = "performMaintenance"
    /\ proc["p1"].pre.now = proc["p1"].now
    /\ idCount > Cardinality(DOMAIN analyses)
    /\ DOMAIN analyses # {}

----------------------------------------------------------------------------
(* The sweep, concurrent with reads *)

(* a caller stores analyses of one database while time passes; from its   *)
(* call of the sweep on the clock stands still and nothing is stored, and  *)
(* a second caller reads that database while the sweep runs and after it   *)
NextSweepReads ==
    \/ /\ proc["p1"].op # "performMaintenance"
       /\ \/ Tick({1})
          \/ \E analysisType \in AnalysisTypes, validFor \in ValidFor :
                StoreDatabaseAnalysisCall("p1", "kls", analysisType, validFor)
          \/ StoreDatabaseAnalysisWrite("p1")
    \/ MaintenanceStep("p1")
    \/ /\ proc["p1"].op = "performMaintenance"
       /\ \/ \E analysisType \in {<<>>} \cup {<<t>> : t \in AnalysisTypes} :
                GetDatabaseAnalysisQuery("p2", "kls", analysisType)
          \/ GetDatabaseAnalysisFilter("p2")
          \/ \E analysisType \in AnalysisTypes :
                GetLatestDatabaseAnalysisQuery("p2", "kls", analysisType)
          \/ GetLatestDatabaseAnalysisSort("p2")

SpecSweepReads == Init /\ [][NextSweepReads]_vars

(* the namespace a sweep that takes the date now leaves when it runs alone *)
SweptAlone(ns, now) ==
    [x \in {y \in DOMAIN ns : ns[y].validUntil > now} |-> ns[x]]

(* what the read of caller p may return when it runs alone on namespace ns *)
(* at the date now                                                         *)
ReadAlone(ns, p, now) ==
    LET found == Orderings(MemQuery(ns,
                     AnalysisCriteria(proc[p].arg[1], proc[p].arg[2])))
    IN  IF proc[p].op = "getDatabaseAnalysis"
          THEN {LiveOnly(ord, now) : ord \in found}
          ELSE {LatestOf(LiveOnly(ord, now)) : ord \in found}

ReadDone(p) ==
    Done(p, "getDatabaseAnalysis") \/ Done(p, "getLatestDatabaseAnalysis")

(* C14: with the clock standing still, whatever the interleaving of a      *)
(* sweep with reads, the sweep leaves the namespace it leaves when it runs *)
(* alone, every read returns what it returns when it runs alone before the *)
(* sweep or alone after it, and no read returns an expired record.         *)
C14_SweepSafeWithReads ==
    \A q \in Procs :
        proc[q].op = "performMaintenance" =>
            LET before == proc[q].pre.analyses
                after == SweptAlone(before, proc[q].now)
            IN  /\ SweepDone(q) => analyses = after
                /\ \A p \in Procs :
                      ReadDone(p) =>
                          /\ proc[p].ret \in ReadAlone(before, p, proc[q].now)
                                  \cup ReadAlone(after, p, proc[q].now)
                          /\ \A j \in 1..Len(proc[p].ret) :
                                proc[p].ret[j].validUntil > proc[q].now

(* a read of the type of an expired record has returned while the sweep   *)
(* is between two of its deletes and that record is the next to go         *)
C14_Witness ==
    /\ proc["p1"].op = "performMaintenance"
    /\ proc["p1"].pc = "sweep_delete"
    /\ analyses # proc["p1"].pre.analyses
    /\ ReadDone("p2")
    /\ proc["p2"].arg[2] = <<proc["p1"].snap[proc["p1"].i].analysisType>>

----------------------------------------------------------------------------
(* Every operation on the analyses *)

(* one caller storing, reading, sweeping, exporting and importing analyses *)
(* of one database, and time passing                                       *)
NextAnalysisOps ==
    \/ Tick({1})
    \/ \E validFor \in ValidFor :
          StoreDatabaseAnalysisCall("p1", "kls", "schema-analysis", validFor)
    \/ StoreDatabaseAnalysisWrite("p1")
    \/ \E analysisType \in {<<>>, <<"schema-analysis">>} :
          GetDatabaseAnalysisQuery("p1", "kls", analysisType)
    \/ GetDatabaseAnalysisFilter("p1")
    \/ GetLatestDatabaseAnalysisQuery("p1", "kls", "schema-analysis")
    \/ GetLatestDatabaseAnalysisSort("p1")
    \/ MaintenanceStep("p1")
    \/ ExportStep("p1")
    \/ \E a \in ImportedAnalyses :
          ImportKnowledgeBaseCall("p1",
              [viewpointExpertise |-> <<>>, arWizardKnowledge |-> <<>>,
               databaseAnalyses |-> <<a>>, predictiveModels |-> <<>>])
    \/ ImportKnowledgeBaseStore("p1")

SpecAnalysisOps == Init /\ [][NextAnalysisOps]_vars

(* the step is one of a read of the analyses: its call or its return *)
ReadStep ==
    \E p \in Procs :
        /\ proc'[p] # proc[p]
        /\ proc'[p].op \in {"getDatabaseAnalysis", "getLatestDatabaseAnalysis"}

(* the step is the sweep's delete of the record stored under x, expired at *)
(* the date the sweep took                                                 *)
SweepDeletes(x) ==
    \E p \in Procs :
        /\ proc[p].op = "performMaintenance"
        /\ proc[p].pc = "sweep_delete"
        /\ proc'[p] # proc[p]
        /\ proc[p].snap[proc[p].i].id = x
        /\ analyses[x].validUntil <= proc[p].now

(* C15: no step of getDatabaseAnalysis or getLatestDatabaseAnalysis        *)
(* changes anything stored -- a record they hide as expired stays in the   *)
(* namespace -- and a record leaves the analyses only by a delete of the   *)
(* sweep.                                                                  *)
C15_ReadsKeepOnlySweepRemoves ==
    [][/\ ReadStep => UNCHANGED stores
       /\ \A x \in (DOMAIN analyses) \ (DOMAIN analyses') : SweepDeletes(x)
      ]_vars

(* a read has held back an expired record that is still stored *)
C15_Witness ==
    /\ Done("p1", "getDatabaseAnalysis")
    /\ \E a \in StoredAnalyses :
          /\ a.database = proc["p1"].arg[1]
          /\ a.validUntil <= proc["p1"].now
          /\ a \notin Range(proc["p1"].ret)

----------------------------------------------------------------------------
(* Update of a model's performance *)

(* a slip of the update: the performance is replaced, the validation date  *)
(* is left as it was                                                       *)
PerformanceOnly(m, performance, now) == [m EXCEPT !.performance = performance]

(* model.performance = performance; model.lastValidated = new Date() *)
Revalidated(m, performance, now) ==
    [m EXCEPT !.performance = performance, !.lastValidated = now]

(* updateModelPerformance: memory.get is awaited.  pre keeps the models as *)
(* they are at the call.                                                   *)
UpdateModelPerformanceGet(p, modelId, performance) ==
    /\ proc[p].pc = "idle"
    /\ BeginWith(p, "pm_update", "updateModelPerformance",
                 <<modelId, performance>>, MemGet(models, modelId), models)
    /\ UNCHANGED <<shell, clock, ticks, stores>>

(* an update that inserts: with no model under the id, a record is stored  *)
(* from what the call was given                                            *)
UpdateModelPerformanceUpsert(p) ==
    /\ proc[p].pc = "pm_update"
    /\ LET m == IF proc[p].snap = <<>>
                  THEN [id |-> proc[p].arg[1], name |-> "model",
                        type |-> "billing-prediction",
                        performance |-> proc[p].arg[2],
                        trainedAt |-> clock, lastValidated |-> clock]
                  ELSE Revalidated(proc[p].snap[1], proc[p].arg[2], clock)
       IN  models' = MemStore(models, proc[p].arg[1], m)
    /\ Finish(p, clock, <<>>)
    /\ UNCHANGED <<shell, clock, ticks, knowledge, expertise, analyses, ctxVars,
                   idCount>>

(* updateModelPerformance, the continuation of the get: with no model the  *)
(* method returns; otherwise the caller's copy is changed and memory.store *)
(* is awaited                                                              *)
UpdateModelPerformanceStore(p) ==
    /\ proc[p].pc = "pm_update"
    /\ IF proc[p].snap = <<>>
         THEN models' = models
         ELSE models' = MemStore(models, proc[p].arg[1],
                            Revalidated(proc[p].snap[1], proc[p].arg[2], clock))
    /\ Finish(p, clock, <<>>)
    /\ UNCHANGED <<shell, clock, ticks, knowledge, expertise, analyses, ctxVars,
                   idCount>>

(* one caller storing models of one type, updating the performance of      *)
(* models stored or not, and asking for the best, and time passing         *)
NextModelUpdate ==
    \/ Tick({1})
    \/ /\ idCount < MaxUpdated
       /\ \E accuracy \in Accuracies :
             StorePredictiveModelCall("p1", "billing-prediction", accuracy)
    \/ StorePredictiveModelWrite("p1")
    \/ \E modelId \in 1..(MaxUpdated + 1), accuracy \in ValidatedAccuracies :
          UpdateModelPerformanceGet("p1", modelId, [accuracy |-> accuracy])
    \/ UpdateModelPerformanceStore("p1")
    \/ GetBestPredictiveModelQuery("p1", "billing-prediction")
    \/ GetBestPredictiveModelSort("p1")

SpecModelUpdate == Init /\ [][NextModelUpdate]_vars

UpdateDone(p) == Done(p, "updateModelPerformance")

(* C16: when updateModelPerformance(modelId, performance) has completed    *)
(* for a model stored at the call, the model is stored with the given      *)
(* performance, with lastValidated the date of the update and its other    *)
(* fields as they were, every other model is as it was, and                *)
(* getBestPredictiveModel ranks the model by the given accuracy: it        *)
(* returns a model of at least that accuracy, and this model when the      *)
(* accuracy exceeds that of every other model of the type.                 *)
C16_UpdateReplacesPerformance ==
    \A p \in Procs :
        (UpdateDone(p) /\ proc[p].arg[1] \in DOMAIN proc[p].pre) =>
            LET id == proc[p].arg[1]
                old == proc[p].pre[id]
                others == {m \in StoredModels : m.type = old.type /\ m.id # id}
            IN  /\ DOMAIN models = DOMAIN proc[p].pre
                /\ models[id] = [old EXCEPT !.performance = proc[p].arg[2],
                                            !.lastValidated = proc[p].now]
                /\ \A x \in (DOMAIN models) \ {id} : models[x] = proc[p].pre[x]
                /\ \A ord \in Orderings(MemQuery(models, [type |-> old.type])) :
                      /\ BestOf(ord)[1].performance.accuracy
                            >= proc[p].arg[2].accuracy
                      /\ (\A m \in others : m.performance.accuracy
                                               < proc[p].arg[2].accuracy)
                            => BestOf(ord)[1].id = id

(* an update, later than the model was trained, that raised the model's    *)
(* accuracy above that of another model of the type, which was the best    *)
C16_Witness ==
    /\ UpdateDone("p1")
    /\ proc["p1"].arg[1] \in DOMAIN proc["p1"].pre
    /\ LET id == proc["p1"].arg[1]
       IN  /\ models[id].lastValidated > models[id].trainedAt
           /\ \E x \in (DOMAIN models) \ {id} :
                 /\ models[x].type = models[id].type
                 /\ models[x].performance.accuracy
                       > proc["p1"].pre[id].performance.accuracy
                 /\ models[x].performance.accuracy
                       < models[id].performance.accuracy

(* C17: when updateModelPerformance has completed for an id under which no *)
(* model was stored at the call, it has returned without a result, no      *)
(* model is stored under the id and the models are as they were.           *)
C17_UpdateOfMissingIsNoOp ==
    \A p \in Procs :
        (UpdateDone(p) /\ proc[p].arg[1] \notin DOMAIN proc[p].pre) =>
            /\ proc[p].ret = <<>>
            /\ proc[p].arg[1] \notin DOMAIN models
            /\ models = proc[p].pre

(* an update of an id that holds no model, next to models that are stored *)
C17_Witness ==
    /\ UpdateDone("p1")
    /\ proc["p1"].arg[1] \notin DOMAIN proc["p1"].pre
    /\ DOMAIN models # {}

----------------------------------------------------------------------------
(* Shared context: what a put stores *)

PutDone(p) == Done(p, "storeSharedContext")

(* C18 as stated: when storeSharedContext(key, data, ttl) has completed,   *)
(* the entry under key is {data, timestamp: the date of the call, ttl: T}, *)
(* T being the ttl given, whatever number it is, and 3600000 when none is  *)
(* given.                                                                  *)
C18_PutStoresGivenTtl ==
    \A p \in Procs :
        PutDone(p) =>
            /\ proc[p].arg[1] \in DOMAIN context
            /\ context[proc[p].arg[1]] =
                  [data |-> proc[p].arg[2], timestamp |-> proc[p].now,
                   ttl |-> RequestedTtl(proc[p].arg[3])]

(* the same for every ttl but 0: holds *)
PutStoresGivenTtlUnlessZero ==
    \A p \in Procs :
        (PutDone(p) /\ proc[p].arg[3] # <<0>>) =>
            /\ proc[p].arg[1] \in DOMAIN context
            /\ context[proc[p].arg[1]] =
                  [data |-> proc[p].arg[2], timestamp |-> proc[p].now,
                   ttl |-> RequestedTtl(proc[p].arg[3])]

----------------------------------------------------------------------------
(* AR Wizard knowledge: properties *)

(* C19: when getARWizardKnowledge(category) has completed, it has returned *)
(* the records stored under the ids that held the category at the call,    *)
(* each once, as they are now stored: with lastUsed a date taken during    *)
(* the call and every other field, createdAt included, as it was; the      *)
(* records of other categories are as they were.                           *)
C19_ReadStampsLastUsed ==
    \A p \in Procs :
        Done(p, "getARWizardKnowledge") =>
            LET before == proc[p].pre.before
                matched == {x \in DOMAIN before :
                               before[x].category = proc[p].arg[1]}
            IN  /\ {proc[p].ret[j].id : j \in 1..Len(proc[p].ret)} = matched
                /\ Len(proc[p].ret) = Cardinality(matched)
                /\ DOMAIN knowledge = DOMAIN before
                /\ \A j \in 1..Len(proc[p].ret) :
                      proc[p].ret[j] = knowledge[proc[p].ret[j].id]
                /\ \A x \in matched :
                      /\ knowledge[x] =
                            [before[x] EXCEPT !.lastUsed = knowledge[x].lastUsed]
                      /\ knowledge[x].lastUsed >= proc[p].pre.at
                      /\ knowledge[x].lastUsed <= proc[p].now
                /\ \A x \in (DOMAIN before) \ matched :
                      knowledge[x] = before[x]

(* a read, later than the records were created, that stamped the record of *)
(* its category and left a record of the other category alone              *)
C19_Witness ==
    /\ Done("p1", "getARWizardKnowledge")
    /\ \E j \in 1..Len(proc["p1"].ret) :
          proc["p1"].ret[j].lastUsed > proc["p1"].ret[j].createdAt
    /\ \E x \in DOMAIN knowledge : knowledge[x].category # proc["p1"].arg[1]

----------------------------------------------------------------------------
(* Every operation of the manager *)

(* one caller using every operation of the manager; the clock stands      *)
(* still: the analysis that a snapshot brings has expired, and the shared  *)
(* context is stored with a negative ttl, expired from the start           *)
NextManager ==
    \/ idCount < MaxManaged /\ FillNew("p1")
    \/ FillWrite("p1")
    \/ StoreSharedContextCall("p1", "k1", "d1", <<-1>>)
    \/ StoreSharedContextWrite("p1")
    \/ GetViewpointExpertiseQuery("p1", "job-billing", <<"business-rule">>)
    \/ GetViewpointExpertiseStore("p1")
    \/ GetARWizardKnowledgeQuery("p1", "billing-rule")
    \/ GetARWizardKnowledgeStore("p1")
    \/ GetDatabaseAnalysisQuery("p1", "kls", <<>>)
    \/ GetDatabaseAnalysisFilter("p1")
    \/ GetLatestDatabaseAnalysisQuery("p1", "kls", "schema-analysis")
    \/ GetLatestDatabaseAnalysisSort("p1")
    \/ GetBestPredictiveModelQuery("p1", "billing-prediction")
    \/ GetBestPredictiveModelSort("p1")
    \/ \E modelId \in 1..MaxManaged :
          UpdateModelPerformanceGet("p1", modelId, [accuracy |-> 95])
    \/ UpdateModelPerformanceStore("p1")
    \/ GetSharedContextRead("p1", "k1")
    \/ GetSharedContextCheck("p1")
    \/ GetSharedContextDelete("p1")
    \/ MaintenanceStep("p1")
    \/ ExportStep("p1")
    \/ \E n \in 1..4 :
          ImportKnowledgeBaseCall("p1",
              [viewpointExpertise |-> IF n = 1 THEN
                  <<[id |-> 2, type |-> "business-rule",
                     domain |-> "job-billing", usageCount |-> 1]>> ELSE <<>>,
               arWizardKnowledge |-> IF n = 2 THEN
                  <<[id |-> 2, category |-> "test-case", createdAt |-> 0,
                     lastUsed |-> 1]>> ELSE <<>>,
               databaseAnalyses |-> IF n = 3 THEN
                  <<[id |-> 2, database |-> "gbi",
                     analysisType |-> "performance", analyzedAt |-> 0,
                     validUntil |-> 0]>> ELSE <<>>,
               predictiveModels |-> IF n = 4 THEN
                  <<[id |-> 2, name |-> "model", type |-> "cost-analysis",
                     performance |-> [accuracy |-> 85], trainedAt |-> 0,
                     lastValidated |-> 0]>> ELSE <<>>])
    \/ ImportKnowledgeBaseStore("p1")

SpecManager == Init /\ [][NextManager]_vars

(* C20: no step removes an id from the expertise, the knowledge or the     *)
(* predictive models: each of the three namespaces holds, in every state,  *)
(* every id that was ever stored in it.                                    *)
C20_NeverAutoDeleted ==
    [][/\ (DOMAIN expertise) \subseteq (DOMAIN expertise')
       /\ (DOMAIN knowledge) \subseteq (DOMAIN knowledge')
       /\ (DOMAIN models) \subseteq (DOMAIN models')]_vars

(* a maintenance has swept an analysis and is about to archive and         *)
(* optimise, with records in each of the three namespaces                  *)
C20_Witness ==
    /\ proc["p1"].op = "performMaintenance"
    /\ proc["p1"].pc = "archive"
    /\ \E j \in 1..Len(proc["p1"].snap) :
          proc["p1"].snap[j].id \notin DOMAIN analyses
    /\ DOMAIN expertise # {}
    /\ DOMAIN knowledge # {}
    /\ DOMAIN models # {}

----------------------------------------------------------------------------
(* Faults of the underlying memory *)

(* what a call of the underlying memory may reject with *)
Faults == {"StorageFault", "Unreachable"}

(* the method rejects with fault f *)
Thrown(f) == <<[thrown |-> f]>>

(* the awaited memory call of caller p rejects with f and the rejection    *)
(* leaves the method: the method ends, its caller gets f.  pre keeps the   *)
(* fault the memory raised.                                                *)
Propagate(p, f) ==
    proc' = [proc EXCEPT ![p].pc = "idle", ![p].ret = Thrown(f),
                         ![p].snap = <<>>, ![p].i = 0,
                         ![p].pre = [fault |-> f]]

(* the awaited memory call of caller p rejects with f inside the try of    *)
(* performMaintenance: the catch logs the error and the method returns     *)
Swallow(p, f) ==
    proc' = [proc EXCEPT ![p].pc = "idle", ![p].ret = <<>>,
                         ![p].snap = <<>>, ![p].i = 0,
                         ![p].pre = [fault |-> f]]

(* storeDatabaseAnalysis: memory.store rejects *)
StoreDatabaseAnalysisFails(p, f) ==
    /\ proc[p].pc = "da_store"
    /\ Propagate(p, f)
    /\ UNCHANGED <<shell, clock, ticks, stores>>

(* getDatabaseAnalysis: memory.query rejects *)
GetDatabaseAnalysisFails(p, database, analysisType, f) ==
    /\ proc[p].pc = "idle"
    /\ proc' = [proc EXCEPT ![p] =
                  [pc |-> "idle", op |-> "getDatabaseAnalysis",
                   arg |-> <<database, analysisType>>, snap |-> <<>>,
                   i |-> 0, now |-> clock, ret |-> Thrown(f),
                   pre |-> [fault |-> f]]]
    /\ UNCHANGED <<shell, clock, ticks, stores>>

(* importKnowledgeBase: a memory.store rejects; the catch logs the error   *)
(* and throws it again                                                     *)
ImportKnowledgeBaseStoreFails(p, f) ==
    /\ proc[p].pc = "import"
    /\ Propagate(p, f)
    /\ UNCHANGED <<shell, clock, ticks, stores>>

(* performMaintenance -> cleanupExpiredAnalyses: memory.query rejects *)
CleanupExpiredAnalysesQueryFails(p, f) ==
    /\ proc[p].pc = "idle"
    /\ proc' = [proc EXCEPT ![p] =
                  [pc |-> "idle", op |-> "performMaintenance", arg |-> <<>>,
                   snap |-> <<>>, i |-> 0, now |-> clock, ret |-> <<>>,
                   pre |-> [fault |-> f]]]
    /\ UNCHANGED <<shell, clock, ticks, stores>>

(* cleanupExpiredAnalyses: a memory.delete rejects *)
CleanupExpiredAnalysesDeleteFails(p, f) ==
    /\ proc[p].pc = "sweep_delete"
    /\ Swallow(p, f)
    /\ UNCHANGED <<shell, clock, ticks, stores>>

(* archiveOldKnowledge: memory.query rejects *)
ArchiveOldKnowledgeFails(p, f) ==
    /\ proc[p].pc = "archive"
    /\ Swallow(p, f)
    /\ UNCHANGED <<shell, clock, ticks, stores>>

(* one caller storing, reading, importing and sweeping analyses over a     *)
(* memory whose calls may reject; the analysis a snapshot brings has       *)
(* expired                                                                 *)
NextFaults ==
    \/ StoreDatabaseAnalysisCall("p1", "kls", "schema-analysis", 1)
    \/ StoreDatabaseAnalysisWrite("p1")
    \/ GetDatabaseAnalysisQuery("p1", "kls", <<>>)
    \/ GetDatabaseAnalysisFilter("p1")
    \/ \E a \in ImportedAnalyses :
          ImportKnowledgeBaseCall("p1",
              [viewpointExpertise |-> <<>>, arWizardKnowledge |-> <<>>,
               databaseAnalyses |-> <<a>>, predictiveModels |-> <<>>])
    \/ ImportKnowledgeBaseStore("p1")
    \/ MaintenanceStep("p1")
    \/ \E f \in Faults :
          \/ StoreDatabaseAnalysisFails("p1", f)
          \/ GetDatabaseAnalysisFails("p1", "kls", <<>>, f)
          \/ ImportKnowledgeBaseStoreFails("p1", f)
          \/ CleanupExpiredAnalysesQueryFails("p1", f)
          \/ CleanupExpiredAnalysesDeleteFails("p1", f)
          \/ ArchiveOldKnowledgeFails("p1", f)

SpecFaults == Init /\ [][NextFaults]_vars

(* a memory call of the method caller p ran last has rejected *)
Faulted(p) == "fault" \in DOMAIN proc[p].pre

(* C21 as stated: when a memory call of a manager operation has rejected,  *)
(* the operation has ended -- the call is not issued again -- and has      *)
(* rejected to its caller with the fault the memory raised.                *)
C21_FaultPropagatedUnmodified ==
    \A p \in Procs :
        Faulted(p) =>
            /\ proc[p].pc = "idle"
            /\ proc[p].ret = Thrown(proc[p].pre.fault)

(* the same for every operation but performMaintenance: holds *)
FaultPropagatedOutsideMaintenance ==
    \A p \in Procs :
        (Faulted(p) /\ proc[p].op # "performMaintenance") =>
            /\ proc[p].pc = "idle"
            /\ proc[p].ret = Thrown(proc[p].pre.fault)

(* a rejected memory call ends performMaintenance, which returns: holds *)
FaultEndsMaintenance ==
    \A p \in Procs :
        (Faulted(p) /\ proc[p].op = "performMaintenance") =>
            /\ proc[p].pc = "idle"
            /\ proc[p].ret = <<>>

----------------------------------------------------------------------------
(* Schema analyses of the integration framework *)

(* a slip of the horizon: an hour *)
SchemaValidUntilHour(now) == now + DefaultTTL

(* new Date(Date.now() + 24 * 60 * 60 * 1000) *)
SchemaValidUntil(now) == now + DayMs

(* analyzeViewpointSchema: the analysis is built with its horizon,         *)
(* storeDatabaseAnalysis adds id and analyzedAt, memory.store is awaited   *)
AnalyzeViewpointSchemaCall(p, database) ==
    /\ proc[p].pc = "idle"
    /\ idCount < MaxAnalyses
    /\ idCount' = idCount + 1
    /\ Begin(p, "avs_store", "analyzeViewpointSchema", <<database, idCount + 1>>,
             <<[id |-> idCount + 1, database |-> database,
                analysisType |-> "schema-analysis", analyzedAt |-> clock,
                validUntil |-> SchemaValidUntil(clock)]>>)
    /\ UNCHANGED <<shell, clock, ticks, knowledge, expertise, analyses, models, ctxVars>>

(* analyzeViewpointSchema: the store is done, success is returned *)
AnalyzeViewpointSchemaStore(p) ==
    /\ proc[p].pc = "avs_store"
    /\ analyses' = MemStore(analyses, proc[p].arg[2], proc[p].snap[1])
    /\ Finish(p, proc[p].now, <<[success |-> TRUE]>>)
    /\ UNCHANGED <<shell, clock, ticks, knowledge, expertise, models, ctxVars, idCount>>

(* analyzeViewpointSchema: the store rejects, the catch returns a failure *)
AnalyzeViewpointSchemaFails(p) ==
    /\ proc[p].pc = "avs_store"
    /\ Finish(p, proc[p].now, <<[success |-> FALSE]>>)
    /\ UNCHANGED <<shell, clock, ticks, stores>>

(* one caller analysing schemas, asking for the latest analysis and        *)
(* sweeping, while the clock advances by a millisecond or by a millisecond *)
(* less than a day                                                         *)
NextSchema ==
    \/ Tick({1, DayMs - 1})
    \/ \E database \in Databases : AnalyzeViewpointSchemaCall("p1", database)
    \/ AnalyzeViewpointSchemaStore("p1")
    \/ AnalyzeViewpointSchemaFails("p1")
    \/ \E database \in Databases :
          GetLatestDatabaseAnalysisQuery("p1", database, "schema-analysis")
    \/ GetLatestDatabaseAnalysisSort("p1")
    \/ MaintenanceStep("p1")

SpecSchema == Init /\ [][NextSchema]_vars

(* C22: an analysis that analyzeViewpointSchema has stored has validUntil  *)
(* a day after its analyzedAt and is stored when the call returns success; *)
(* no step removes it while the clock is less than a day past its          *)
(* creation, sweeps included; getLatestDatabaseAnalysis(database,          *)
(* 'schema-analysis') returns a record iff one of the database is stored   *)
(* less than a day old at the date of the call, so not the analysis once a *)
(* day has passed; and a sweep that took a date a day or more past the     *)
(* creation leaves it deleted.                                             *)
C22_SchemaAnalysisLivesADay ==
    /\ [](/\ \A a \in StoredAnalyses : a.validUntil = a.analyzedAt + DayMs
          /\ \A p \in Procs :
                /\ (Done(p, "analyzeViewpointSchema") /\ proc[p].ret[1].success)
                      => /\ proc[p].arg[2] \in DOMAIN analyses
                         /\ analyses[proc[p].arg[2]].analyzedAt = proc[p].now
                /\ Done(p, "getLatestDatabaseAnalysis") =>
                      ((proc[p].ret # <<>>) <=>
                          \E a \in StoredAnalyses :
                              /\ a.database = proc[p].arg[1]
                              /\ proc[p].now < a.analyzedAt + DayMs)
                /\ SweepDone(p) =>
                      \A a \in StoredAnalyses :
                          proc[p].now < a.analyzedAt + DayMs)
    /\ [][\A x \in DOMAIN analyses :
             clock < analyses[x].analyzedAt + DayMs
                => (x \in DOMAIN analyses' /\ analyses'[x] = analyses[x])]_vars

(* the latest analysis was asked for a millisecond before its day was     *)
(* over, and returned                                                      *)
C22_Witness ==
    /\ Done("p1", "getLatestDatabaseAnalysis")
    /\ proc["p1"].ret # <<>>
    /\ proc["p1"].now = proc["p1"].ret[1].analyzedAt + DayMs - 1

----------------------------------------------------------------------------
(* The platform: its life cycle *)

(* intervals one platform may hold where initialize is called again *)
MaxIntervals == 4

(* defaultConfig.databases and defaultConfig.expertSystems, by name *)
ConfigDatabases == <<"Viewpoint_KLS", "Viewpoint_GBI">>
ConfigExpertSystems == <<"Viewpoint SQL Expert", "JC Revenue Expert">>

(* defaultConfig.platform.monitoring.enabled *)
MonitoringEnabled == TRUE

(* what a rejected call of the swarm coordinator throws *)
CoordinatorFaults == {"Unreachable"}

(* this.emit(e) and a call of the swarm coordinator or the distributed     *)
(* memory, as entries of out                                               *)
Emit(e) == <<"emit", e>>
Call(c) == <<"call", c>>

(* this.emit('platform:error', error) *)
EmitError(f) == <<"emit", "platform:error", f>>

Emits(o, e) == Emit(e) \in Range(o)
Calls(o) == {x \in Range(o) : x[1] = "call"}

(* the id setInterval returns *)
NewInterval(S) ==
    CHOOSE n \in 1..(Cardinality(S) + 1) : n \notin {t.id : t \in S}

(* startMonitoring: both handles are overwritten with new intervals *)
StartMonitoring ==
    IF ~MonitoringEnabled
    THEN UNCHANGED <<healthCheckTimer, metricsTimer, intervals>>
    ELSE LET h == NewInterval(intervals)
             withH == intervals \cup {[id |-> h, fires |-> "health-check"]}
             m == NewInterval(withH)
         IN  /\ healthCheckTimer' = h
             /\ metricsTimer' = m
             /\ intervals' = withH \cup {[id |-> m, fires |-> "metrics"]}

(* stopMonitoring: clearInterval of the two handles the platform holds *)
StopMonitoring ==
    /\ intervals' = {t \in intervals :
                        t.id \notin {healthCheckTimer, metricsTimer}}
    /\ healthCheckTimer' = 0
    /\ metricsTimer' = 0

(* pre of a platform method: the status at its call and the awaits that    *)
(* resolved so far, in order (history)                                     *)
AtCall == [at |-> status, done |-> <<>>]

(* the await of caller p resolved: step is done and the method goes on at pcv *)
Resolves(p, step, pcv, iv) ==
    proc' = [proc EXCEPT ![p].pc = pcv, ![p].i = iv,
                         ![p].pre.done = Append(@, step)]

(* the method of caller p returns retv after its await of step resolved *)
Returns(p, step, retv) ==
    proc' = [proc EXCEPT ![p].pc = "idle", ![p].i = 0, ![p].ret = retv,
                         ![p].pre.done = Append(@, step)]

(* the method of caller p rejects with f *)
Rejects(p, f) ==
    proc' = [proc EXCEPT ![p].pc = "idle", ![p].i = 0, ![p].ret = Thrown(f)]

(* the method of caller p ends at its call, before any await *)
EndsAtCall(p, opv, retv) ==
    proc' = [proc EXCEPT ![p] = [IdleProc EXCEPT !.op = opv, !.now = clock,
                                                 !.ret = retv, !.pre = AtCall]]

(* initialize: up to the await of distributedMemory.initialize() *)
InitializeCall(p) ==
    /\ proc[p].pc = "idle"
    /\ Cardinality(intervals) + 2 <= MaxIntervals
    /\ status' = "initializing"
    /\ out' = <<Call("distributedMemory.initialize")>>
    /\ BeginWith(p, "in_memory", "initialize", <<>>, <<>>, AtCall)
    /\ UNCHANGED <<healthCheckTimer, metricsTimer, intervals, integration,
                   clock, ticks, stores>>

(* initializeMemorySystem: the distributed memory is up,                   *)
(* integrateExistingExpertSystems (a placeholder) is awaited               *)
InitializeMemoryUp(p) ==
    /\ proc[p].pc = "in_memory"
    /\ out' = <<>>
    /\ proc' = [proc EXCEPT ![p].pc = "in_integrate"]
    /\ UNCHANGED <<status, healthCheckTimer, metricsTimer, intervals,
                   integration, clock, ticks, stores>>

(* connectToDatabases: the memory system is initialized, the first         *)
(* configured database is connected and awaited                            *)
InitializeMemoryDone(p) ==
    /\ proc[p].pc = "in_integrate"
    /\ out' = <<>>
    /\ IF Len(ConfigDatabases) > 0
       THEN /\ databaseConnections' =
                   databaseConnections \cup {ConfigDatabases[1]}
            /\ Resolves(p, "memory", "in_db", 1)
       ELSE /\ UNCHANGED databaseConnections
            /\ Resolves(p, "memory", "in_db", 0)
    /\ UNCHANGED <<status, healthCheckTimer, metricsTimer, intervals,
                   expertSystemClients, clock, ticks, stores>>

(* connectToDatabases: the next database of the loop *)
InitializeConnectDatabase(p) ==
    /\ proc[p].pc = "in_db"
    /\ proc[p].i < Len(ConfigDatabases)
    /\ out' = <<>>
    /\ databaseConnections' =
           databaseConnections \cup {ConfigDatabases[proc[p].i + 1]}
    /\ proc' = [proc EXCEPT ![p].i = @ + 1]
    /\ UNCHANGED <<status, healthCheckTimer, metricsTimer, intervals,
                   expertSystemClients, clock, ticks, stores>>

(* connectToExpertSystems: every database is connected, the first          *)
(* configured expert system is connected and awaited                       *)
InitializeDatabasesDone(p) ==
    /\ proc[p].pc = "in_db"
    /\ proc[p].i >= Len(ConfigDatabases)
    /\ out' = <<>>
    /\ IF Len(ConfigExpertSystems) > 0
       THEN /\ expertSystemClients' =
                   expertSystemClients \cup {ConfigExpertSystems[1]}
            /\ Resolves(p, "databases", "in_es", 1)
       ELSE /\ UNCHANGED expertSystemClients
            /\ Resolves(p, "databases", "in_es", 0)
    /\ UNCHANGED <<status, healthCheckTimer, metricsTimer, intervals,
                   databaseConnections, clock, ticks, stores>>

(* connectToExpertSystems: the next expert system of the loop *)
InitializeConnectExpertSystem(p) ==
    /\ proc[p].pc = "in_es"
    /\ proc[p].i < Len(ConfigExpertSystems)
    /\ out' = <<>>
    /\ expertSystemClients' =
           expertSystemClients \cup {ConfigExpertSystems[proc[p].i + 1]}
    /\ proc' = [proc EXCEPT ![p].i = @ + 1]
    /\ UNCHANGED <<status, healthCheckTimer, metricsTimer, intervals,
                   databaseConnections, clock, ticks, stores>>

(* initializeSwarmCoordinator: every expert system is connected,           *)
(* swarmCoordinator.initializeARWizardSwarm() is awaited                   *)
InitializeExpertSystemsDone(p) ==
    /\ proc[p].pc = "in_es"
    /\ proc[p].i >= Len(ConfigExpertSystems)
    /\ out' = <<Call("swarmCoordinator.initializeARWizardSwarm")>>
    /\ Resolves(p, "expertSystems", "in_swarm", 0)
    /\ UNCHANGED <<status, healthCheckTimer, metricsTimer, intervals,
                   integration, clock, ticks, stores>>

(* the swarm is initialized: startMonitoring, status, the event *)
InitializeDone(p) ==
    /\ proc[p].pc = "in_swarm"
    /\ StartMonitoring
    /\ status' = "running"
    /\ out' = <<Emit("platform:initialized")>>
    /\ Returns(p, "swarm", <<>>)
    /\ UNCHANGED <<integration, clock, ticks, stores>>

(* a catch that sets the status and rethrows without the event *)
InitializeFailsSilently(p, f) ==
    /\ proc[p].pc \in {"in_memory", "in_swarm"}
    /\ status' = "error"
    /\ out' = <<>>
    /\ Rejects(p, f)
    /\ UNCHANGED <<healthCheckTimer, metricsTimer, intervals, integration,
                   clock, ticks, stores>>

(* an awaited step of initialize rejects with f: the catch *)
InitializeFails(p, f) ==
    /\ proc[p].pc \in {"in_memory", "in_swarm"}
    /\ status' = "error"
    /\ out' = <<EmitError(f)>>
    /\ Rejects(p, f)
    /\ UNCHANGED <<healthCheckTimer, metricsTimer, intervals, integration,
                   clock, ticks, stores>>

InitializeStep(p) ==
    \/ InitializeCall(p)
    \/ InitializeMemoryUp(p)
    \/ InitializeMemoryDone(p)
    \/ InitializeConnectDatabase(p)
    \/ InitializeDatabasesDone(p)
    \/ InitializeConnectExpertSystem(p)
    \/ InitializeExpertSystemsDone(p)
    \/ InitializeDone(p)
    \/ \E f \in Faults : InitializeFails(p, f)

(* shutdown: status, stopMonitoring, up to the await of                    *)
(* swarmCoordinator.shutdown()                                             *)
ShutdownCall(p) ==
    /\ proc[p].pc = "idle"
    /\ status' = "stopped"
    /\ StopMonitoring
    /\ out' = <<Call("swarmCoordinator.shutdown")>>
    /\ BeginWith(p, "sd_swarm", "shutdown", <<>>, <<>>, AtCall)
    /\ UNCHANGED <<integration, clock, ticks, stores>>

(* integrationFramework.disconnect(): both maps are cleared; then          *)
(* memoryManager.performMaintenance() is awaited                           *)
ShutdownDisconnect(p) ==
    /\ proc[p].pc = "sd_swarm"
    /\ databaseConnections' = {}
    /\ expertSystemClients' = {}
    /\ out' = <<>>
    /\ Resolves(p, "swarm", "sd_maintenance", 0)
    /\ UNCHANGED <<status, healthCheckTimer, metricsTimer, intervals,
                   clock, ticks, stores>>

(* performMaintenance has run (it swallows its faults): the expired        *)
(* analyses are gone; the event                                            *)
ShutdownDone(p) ==
    /\ proc[p].pc = "sd_maintenance"
    /\ analyses' = SweptAlone(analyses, clock)
    /\ out' = <<Emit("platform:shutdown")>>
    /\ Returns(p, "maintenance", <<>>)
    /\ UNCHANGED <<status, healthCheckTimer, metricsTimer, intervals,
                   integration, clock, ticks, knowledge, expertise, models,
                   ctxVars, idCount>>

(* swarmCoordinator.shutdown() rejects with f: the catch logs and rethrows *)
ShutdownFails(p, f) ==
    /\ proc[p].pc = "sd_swarm"
    /\ out' = <<>>
    /\ Rejects(p, f)
    /\ UNCHANGED <<status, healthCheckTimer, metricsTimer, intervals,
                   integration, clock, ticks, stores>>

ShutdownStep(p) ==
    \/ ShutdownCall(p)
    \/ ShutdownDisconnect(p)
    \/ ShutdownDone(p)
    \/ \E f \in CoordinatorFaults : ShutdownFails(p, f)

(* resume that starts whatever is not running *)
MayResumeUnlessRunning(s) == s # "running"

(* if (this.status !== 'running') return *)
MayPause(s) == s = "running"

(* if (this.status !== 'paused') return *)
MayResume(s) == s = "paused"

(* pause: returns at once unless running; otherwise status, then the await *)
(* of swarmCoordinator.pause()                                             *)
PauseCall(p) ==
    /\ proc[p].pc = "idle"
    /\ IF MayPause(status)
       THEN /\ status' = "paused"
            /\ out' = <<Call("swarmCoordinator.pause")>>
            /\ BeginWith(p, "pa_swarm", "pause", <<>>, <<>>, AtCall)
       ELSE /\ UNCHANGED status
            /\ out' = <<>>
            /\ EndsAtCall(p, "pause", <<>>)
    /\ UNCHANGED <<healthCheckTimer, metricsTimer, intervals, integration,
                   clock, ticks, stores>>

PauseDone(p) ==
    /\ proc[p].pc = "pa_swarm"
    /\ out' = <<Emit("platform:paused")>>
    /\ Returns(p, "swarm", <<>>)
    /\ UNCHANGED <<status, healthCheckTimer, metricsTimer, intervals,
                   integration, clock, ticks, stores>>

(* resume: returns at once unless paused; otherwise status, then the await *)
(* of swarmCoordinator.resume()                                            *)
ResumeCall(p) ==
    /\ proc[p].pc = "idle"
    /\ IF MayResume(status)
       THEN /\ status' = "running"
            /\ out' = <<Call("swarmCoordinator.resume")>>
            /\ BeginWith(p, "re_swarm", "resume", <<>>, <<>>, AtCall)
       ELSE /\ UNCHANGED status
            /\ out' = <<>>
            /\ EndsAtCall(p, "resume", <<>>)
    /\ UNCHANGED <<healthCheckTimer, metricsTimer, intervals, integration,
                   clock, ticks, stores>>

ResumeDone(p) ==
    /\ proc[p].pc = "re_swarm"
    /\ out' = <<Emit("platform:resumed")>>
    /\ Returns(p, "swarm", <<>>)
    /\ UNCHANGED <<status, healthCheckTimer, metricsTimer, intervals,
                   integration, clock, ticks, stores>>

(* swarmCoordinator.pause() or resume() rejects with f: no catch *)
PauseResumeFails(p, f) ==
    /\ proc[p].pc \in {"pa_swarm", "re_swarm"}
    /\ out' = <<>>
    /\ Rejects(p, f)
    /\ UNCHANGED <<status, healthCheckTimer, metricsTimer, intervals,
                   integration, clock, ticks, stores>>

PauseResumeStep(p) ==
    \/ PauseCall(p)
    \/ PauseDone(p)
    \/ ResumeCall(p)
    \/ ResumeDone(p)
    \/ \E f \in CoordinatorFaults : PauseResumeFails(p, f)

(* isRunning() *)
IsRunning == status = "running"

(* the interval t fires performHealthCheck: getStatus may throw (caught),  *)
(* the swarm may be reported failed                                        *)
PerformHealthCheck(t) ==
    /\ t \in intervals
    /\ t.fires = "health-check"
    /\ out' \in {<<>>,
                 <<Emit("platform:health-check")>>,
                 <<Emit("platform:health-check"),
                   Emit("platform:critical-issues")>>}
    /\ UNCHANGED <<status, healthCheckTimer, metricsTimer, intervals,
                   integration, clock, ticks, stores, proc>>

(* the interval t fires collectMetrics: getMetrics may throw (caught) *)
CollectMetrics(t) ==
    /\ t \in intervals
    /\ t.fires = "metrics"
    /\ out' \in {<<>>, <<Emit("platform:metrics")>>}
    /\ UNCHANGED <<status, healthCheckTimer, metricsTimer, intervals,
                   integration, clock, ticks, stores, proc>>

MonitoringStep ==
    \E t \in intervals : PerformHealthCheck(t) \/ CollectMetrics(t)

----------------------------------------------------------------------------
(* The platform: workflows *)

Workflows == {"developARWizardComponent", "testARWizardComponent",
              "deployARWizardComponent"}

(* the coordinator workflow each method awaits *)
CoordinatorWorkflow(method) ==
    CASE method = "developARWizardComponent" ->
             "swarmCoordinator.executeARWizardDevelopmentWorkflow"
      [] method = "testARWizardComponent" ->
             "swarmCoordinator.executeARWizardTestingWorkflow"
      [] method = "deployARWizardComponent" ->
             "swarmCoordinator.executeARWizardDeploymentWorkflow"

WorkflowCalls == {Call(CoordinatorWorkflow(m)) : m \in Workflows}

(* new Error('Platform is not running') *)
NotRunning == "Platform is not running"

(* a gate that only keeps a stopped or failed platform out *)
MayRunWorkflowUnlessDown(s) == s \notin {"stopped", "error"}

(* if (this.status !== 'running') throw *)
MayRunWorkflow(s) == s = "running"

(* the three workflow methods: the gate, then the await of the coordinator *)
WorkflowCall(p, method) ==
    /\ proc[p].pc = "idle"
    /\ IF MayRunWorkflow(status)
       THEN /\ out' = <<Call(CoordinatorWorkflow(method))>>
            /\ BeginWith(p, "wf_swarm", method, <<>>, <<>>, AtCall)
       ELSE /\ out' = <<>>
            /\ EndsAtCall(p, method, Thrown(NotRunning))
    /\ UNCHANGED <<status, healthCheckTimer, metricsTimer, intervals,
                   integration, clock, ticks, stores>>

(* the coordinator returned the objective: the event, then the return *)
WorkflowStarted(p) ==
    /\ proc[p].pc = "wf_swarm"
    /\ out' = <<Emit("workflow:started")>>
    /\ Returns(p, "swarm", <<[objectiveId |-> "objective"]>>)
    /\ UNCHANGED <<status, healthCheckTimer, metricsTimer, intervals,
                   integration, clock, ticks, stores>>

(* the coordinator workflow rejects with f: the catch logs and rethrows *)
WorkflowFails(p, f) ==
    /\ proc[p].pc = "wf_swarm"
    /\ out' = <<>>
    /\ Rejects(p, f)
    /\ UNCHANGED <<status, healthCheckTimer, metricsTimer, intervals,
                   integration, clock, ticks, stores>>

WorkflowStep(p) ==
    \/ \E method \in Workflows : WorkflowCall(p, method)
    \/ WorkflowStarted(p)
    \/ \E f \in CoordinatorFaults : WorkflowFails(p, f)

(* every public method of the platform, called by concurrent callers; the  *)
(* callbacks of the intervals, which only emit, run under NextPlatformSeq  *)
(* and NextShutdownOverlap                                                 *)
NextPlatform ==
    /\ UNCHANGED cli
    /\ \E p \in Procs : \/ InitializeStep(p)
                        \/ ShutdownStep(p)
                        \/ PauseResumeStep(p)
                        \/ WorkflowStep(p)

SpecPlatform == Init /\ [][NextPlatform]_vars

----------------------------------------------------------------------------
(* The command line: run(args) on one ARWizardCLI, one command at a time *)

CliCaller == "p1"

CliIdle == cli.command = "none" /\ ~cli.exited /\ proc[CliCaller].pc = "idle"

Runs(command) == cli' = [cli EXCEPT !.command = command, !.platform = TRUE]

(* the command ends at once and printed line *)
Says(command, line) ==
    cli' = [cli EXCEPT !.last = command, !.said = line]

(* initPlatform: this.platform = new ARWizardPlatform(defaultConfig), a    *)
(* platform with its own memory and integration framework, then            *)
(* initialize() up to its first await.  The intervals of a platform that   *)
(* was replaced stay with the runtime.                                     *)
InitPlatform(command) ==
    /\ Cardinality(intervals) + 2 <= MaxIntervals
    /\ status' = "initializing"
    /\ healthCheckTimer' = 0
    /\ metricsTimer' = 0
    /\ databaseConnections' = {}
    /\ expertSystemClients' = {}
    /\ expertise' = EmptyNs
    /\ knowledge' = EmptyNs
    /\ analyses' = EmptyNs
    /\ models' = EmptyNs
    /\ context' = EmptyNs
    /\ out' = <<Call("distributedMemory.initialize")>>
    /\ BeginWith(CliCaller, "in_memory", "initialize", <<>>, <<>>,
                 [at |-> "initializing", done |-> <<>>])
    /\ Runs(command)
    /\ UNCHANGED <<intervals, lastPut, idCount, clock, ticks>>

(* case 'init' *)
CliInit ==
    /\ CliIdle
    /\ InitPlatform("init")

(* case 'start': startPlatform *)
CliStart ==
    /\ CliIdle
    /\ IF ~cli.platform
       THEN InitPlatform("start")
       ELSE IF IsRunning
            THEN /\ Says("start", "Platform is already running")
                 /\ UNCHANGED <<platform, integration, clock, ticks, stores,
                                proc>>
            ELSE /\ ResumeCall(CliCaller)
                 /\ Runs("start")

(* case 'stop': stopPlatform *)
CliStop ==
    /\ CliIdle
    /\ IF ~cli.platform
       THEN /\ Says("stop", "Platform is not initialized")
            /\ UNCHANGED <<platform, integration, clock, ticks, stores, proc>>
       ELSE /\ ShutdownCall(CliCaller)
            /\ Runs("stop")

(* case 'develop', 'test', 'deploy' with a description *)
CliWorkflow(command, method) ==
    /\ CliIdle
    /\ IF ~cli.platform \/ ~IsRunning
       THEN /\ Says(command, "Platform is not running. Please start the platform first.")
            /\ UNCHANGED <<platform, integration, clock, ticks, stores, proc>>
       ELSE /\ WorkflowCall(CliCaller, method)
            /\ Runs(command)

(* case 'status', 'metrics': they print what the platform reports *)
CliShow(command) ==
    /\ CliIdle
    /\ Says(command, IF cli.platform THEN status
                     ELSE "Platform is not initialized")
    /\ UNCHANGED <<platform, integration, clock, ticks, stores, proc>>

(* the line a command prints last when the method it awaited returned *)
LastLine(command) ==
    CASE command = "init" -> "Platform initialized successfully"
      [] command = "start" ->
             IF proc[CliCaller].op = "initialize"
             THEN "Platform initialized successfully"
             ELSE "Platform started"
      [] command = "stop" -> "Platform stopped"
      [] OTHER -> "workflow started"

(* the awaited platform method settled: the command prints and ends; a     *)
(* rejection reaches the catch of run (Deno.exit(1)) unless the command    *)
(* caught it itself                                                        *)
CliReturn ==
    /\ cli.command # "none"
    /\ proc[CliCaller].pc = "idle"
    /\ LET failed == proc[CliCaller].ret # <<>>
                     /\ "thrown" \in DOMAIN proc[CliCaller].ret[1]
       IN  cli' = [cli EXCEPT
                     !.command = "none",
                     !.last = cli.command,
                     !.said = IF ~failed THEN LastLine(cli.command)
                              ELSE IF cli.command \in {"init", "start", "stop"}
                                   THEN "Error" ELSE "workflow failed",
                     !.exited = failed /\ cli.command \in {"init", "start", "stop"}]
    /\ UNCHANGED <<platform, integration, clock, ticks, stores, proc>>

(* the platform method the command awaits goes on.  No command calls      *)
(* pause, so the resume of 'start' finds no paused platform and never      *)
(* awaits the coordinator (NoCliResumeAwaits).                             *)
CliAwaits ==
    /\ cli.command # "none"
    /\ proc[CliCaller].pc # "idle"
    /\ \/ InitializeMemoryUp(CliCaller)
       \/ InitializeMemoryDone(CliCaller)
       \/ InitializeConnectDatabase(CliCaller)
       \/ InitializeDatabasesDone(CliCaller)
       \/ InitializeConnectExpertSystem(CliCaller)
       \/ InitializeExpertSystemsDone(CliCaller)
       \/ InitializeDone(CliCaller)
       \/ \E f \in Faults : InitializeFails(CliCaller, f)
       \/ ShutdownDisconnect(CliCaller)
       \/ ShutdownDone(CliCaller)
       \/ \E f \in Faults : ShutdownFails(CliCaller, f)
       \/ WorkflowStarted(CliCaller)
       \/ \E f \in Faults : WorkflowFails(CliCaller, f)
    /\ UNCHANGED cli

NextCli ==
    \/ CliInit
    \/ CliStart
    \/ CliStop
    \/ CliWorkflow("develop", "developARWizardComponent")
    \/ CliWorkflow("test", "testARWizardComponent")
    \/ CliWorkflow("deploy", "deployARWizardComponent")
    \/ CliShow("status")
    \/ CliShow("metrics")
    \/ CliReturn
    \/ CliAwaits

SpecCli == Init /\ [][NextCli]_vars

NoCliResumeAwaits == proc[CliCaller].pc \notin {"pa_swarm", "re_swarm"}

StartCompleted == cli.command = "none" /\ cli.last = "start" /\ ~cli.exited

(* C23: whenever the command 'start' completed without error, whatever     *)
(* commands ran before it, platform.isRunning() is true.                   *)
C23_StartStarts == StartCompleted => IsRunning

(* where it fails: start printed 'Platform started' on a stopped platform *)
C23_StartedButStopped ==
    StartCompleted /\ cli.said = "Platform started" /\ status = "stopped"

----------------------------------------------------------------------------
(* Shared context: reads concurrent with writes of the same key *)

(* both callers read and write key k1; the clock may pass the default ttl *)
NextContextRace ==
    \/ Tick({DefaultTTL + 1})
    \/ \E p \in Procs :
          \/ \E data \in Data : StoreSharedContextCall(p, "k1", data, <<>>)
          \/ StoreSharedContextWrite(p)
          \/ GetSharedContextRead(p, "k1")
          \/ GetSharedContextCheck(p)
          \/ GetSharedContextDelete(p)

SpecContextRace == Init /\ [][NextContextRace]_vars

(* the step is the delete of the getSharedContext of caller p *)
CtxDeletes(p) == proc[p].pc = "ctx_delete" /\ proc'[p].pc = "idle"

(* C24: the entry a getSharedContext removes from the storage is expired   *)
(* at the moment it is removed, whatever storeSharedContext calls of the   *)
(* same key run between its read and its delete.                           *)
C24_GetDeletesOnlyExpired ==
    [][\A p \in Procs :
          (CtxDeletes(p) /\ proc[p].arg[1] \in DOMAIN context)
          => Expired(context[proc[p].arg[1]], clock)]_vars

(* where it fails: the entry the delete is about to remove is not the one  *)
(* the read found, and is not expired                                      *)
C24_FreshEntryAboutToGo ==
    \E p \in Procs :
        /\ proc[p].pc = "ctx_delete"
        /\ proc[p].arg[1] \in DOMAIN context
        /\ context[proc[p].arg[1]] # proc[p].snap[1]
        /\ ~Expired(context[proc[p].arg[1]], clock)

----------------------------------------------------------------------------
(* The platform: properties *)

(* the step is the call of a method in ops by caller p *)
CalledBy(p, ops) ==
    proc[p].pc = "idle" /\ proc'[p] # proc[p] /\ proc'[p].op \in ops

Objective == <<[objectiveId |-> "objective"]>>

(* C25: a workflow method called while status is not 'running' fails with  *)
(* 'Platform is not running', calls no coordinator workflow and emits      *)
(* nothing; a coordinator workflow is only called while running; and       *)
(* 'workflow:started' is only emitted by the step in which the awaited     *)
(* coordinator workflow has returned and the method returns its objective. *)
C25_WorkflowsGated ==
    [][/\ \A p \in Procs :
             (CalledBy(p, Workflows) /\ status # "running")
             => /\ proc'[p].pc = "idle"
                /\ proc'[p].ret = Thrown(NotRunning)
                /\ out' = <<>>
       /\ (WorkflowCalls \cap Range(out') # {}) => status = "running"
       /\ Emits(out', "workflow:started")
          => \E p \in Procs : /\ proc[p].pc = "wf_swarm"
                              /\ proc[p].op \in Workflows
                              /\ proc'[p].pc = "idle"
                              /\ proc'[p].pre.done = <<"swarm">>
                              /\ proc'[p].ret = Objective]_vars

(* reached: one caller was refused on a paused platform, the workflow of   *)
(* the other, called while running, has just started                       *)
C25_Witness ==
    \E p, q \in Procs :
        /\ proc[p].pc = "idle"
        /\ proc[p].op \in Workflows
        /\ proc[p].pre.at = "paused"
        /\ proc[p].ret = Thrown(NotRunning)
        /\ proc[q].pc = "idle"
        /\ proc[q].op \in Workflows
        /\ proc[q].ret = Objective
        /\ out = <<Emit("workflow:started")>>

(* C26: pause changes the status only from running to paused and resume    *)
(* only from paused to running; called in any other status they return at  *)
(* once, leave the status, call no coordinator and emit nothing; after the *)
(* call they do not change the status again.                               *)
C26_PauseResumeTransitions ==
    [][\A p \in Procs :
          /\ CalledBy(p, {"pause"})
             => IF status = "running"
                THEN status' = "paused"
                ELSE /\ status' = status
                     /\ out' = <<>>
                     /\ proc'[p].pc = "idle"
                     /\ proc'[p].ret = <<>>
          /\ CalledBy(p, {"resume"})
             => IF status = "paused"
                THEN status' = "running"
                ELSE /\ status' = status
                     /\ out' = <<>>
                     /\ proc'[p].pc = "idle"
                     /\ proc'[p].ret = <<>>
          /\ (proc[p].pc \in {"pa_swarm", "re_swarm"} /\ proc'[p] # proc[p])
             => status' = status
          /\ Emits(out', "platform:paused") =>
                \E q \in Procs : proc[q].pc = "pa_swarm" /\ proc'[q].pc = "idle"
          /\ Emits(out', "platform:resumed") =>
                \E q \in Procs : proc[q].pc = "re_swarm" /\ proc'[q].pc = "idle"
      ]_vars

(* reached: resume was called on a stopped platform and on one that        *)
(* failed to initialize, and returned at once                              *)
C26_Witness ==
    \E p, q \in Procs :
        /\ proc[p].pc = "idle"
        /\ proc[p].op = "resume"
        /\ proc[p].pre.at = "stopped"
        /\ proc[q].pc = "idle"
        /\ proc[q].op = "resume"
        /\ proc[q].pre.at = "error"
        /\ status = "error"

----------------------------------------------------------------------------
(* The platform: one caller *)

(* every public method of the platform, one call at a time *)
NextPlatformSeq ==
    /\ UNCHANGED cli
    /\ \/ InitializeStep("p1")
       \/ ShutdownStep("p1")
       \/ PauseResumeStep("p1")
       \/ WorkflowStep("p1")
       \/ MonitoringStep

SpecPlatformSeq == Init /\ [][NextPlatformSeq]_vars

(* the awaits of initialize, in the order of the code *)
InitOrder == <<"memory", "databases", "expertSystems", "swarm">>

IsPrefix(s, t) == Len(s) <= Len(t) /\ \A j \in 1..Len(s) : s[j] = t[j]

AllDatabasesConnected(dbs) == Range(ConfigDatabases) \subseteq dbs

AllExpertSystemsConnected(es) == Range(ConfigExpertSystems) \subseteq es

(* the step belongs to the initialize of caller p and follows its call *)
InitializeGoesOn(p) ==
    proc[p].op = "initialize" /\ proc[p].pc # "idle" /\ proc'[p] # proc[p]

(* C27: initialize runs its steps in the order memory system, databases,   *)
(* expert systems, swarm coordinator: a database is connected only after   *)
(* the memory system is initialized, an expert system only after every     *)
(* configured database is connected, the coordinator is initialized only   *)
(* after every configured expert system is connected, and monitoring,      *)
(* status 'running' and 'platform:initialized' come only after all four.   *)
(* When a step rejects, the call ends there: nothing more is connected, no *)
(* interval is made, status is 'error', 'platform:error' carries the error *)
(* and the call rejects with it.                                           *)
C27_InitializeInOrder ==
    [][\A p \in Procs : InitializeGoesOn(p) =>
          LET done == proc'[p].pre.done
              ended == proc'[p].pc = "idle"
          IN  /\ IsPrefix(done, InitOrder)
              /\ databaseConnections' # databaseConnections
                 => "memory" \in Range(done)
              /\ expertSystemClients' # expertSystemClients
                 => /\ "databases" \in Range(done)
                    /\ AllDatabasesConnected(databaseConnections')
              /\ Calls(out') # {}
                 => /\ out' = <<Call("swarmCoordinator.initializeARWizardSwarm")>>
                    /\ done = SubSeq(InitOrder, 1, 3)
                    /\ AllExpertSystemsConnected(expertSystemClients')
              /\ (\/ status' = "running"
                  \/ Emits(out', "platform:initialized")
                  \/ intervals' # intervals
                  \/ (ended /\ proc'[p].ret = <<>>))
                 => /\ done = InitOrder
                    /\ ended
                    /\ proc'[p].ret = <<>>
                    /\ status' = "running"
                    /\ out' = <<Emit("platform:initialized")>>
                    /\ AllDatabasesConnected(databaseConnections')
                    /\ AllExpertSystemsConnected(expertSystemClients')
                    /\ MonitoringEnabled =>
                          /\ healthCheckTimer' # 0
                          /\ metricsTimer' # 0
                          /\ {healthCheckTimer', metricsTimer'}
                                \subseteq {t.id : t \in intervals'}
              /\ (ended /\ proc'[p].ret # <<>>)
                 => /\ \E f \in Faults : /\ proc'[p].ret = Thrown(f)
                                         /\ out' = <<EmitError(f)>>
                    /\ status' = "error"
                    /\ done # InitOrder
                    /\ UNCHANGED <<intervals, healthCheckTimer, metricsTimer,
                                   databaseConnections, expertSystemClients>>
      ]_vars

(* reached: an initialize failed at the swarm coordinator, after the       *)
(* memory, the databases and the expert systems                            *)
C27_Witness ==
    /\ Done("p1", "initialize")
    /\ proc["p1"].ret # <<>>
    /\ proc["p1"].pre.done = SubSeq(InitOrder, 1, 3)
    /\ status = "error"
    /\ AllDatabasesConnected(databaseConnections)
    /\ intervals = {}

(* shutdown() of caller p returned and p called nothing since *)
ShutdownCompleted(p) == Done(p, "shutdown") /\ proc[p].ret = <<>>

(* C28: once shutdown() has completed and until initialize is called again *)
(* the status is 'stopped' and no interval of the monitoring is active,    *)
(* whatever sequence of initialize, pause, resume and shutdown came        *)
(* before, initialize called more than once included.                      *)
C28_ShutdownStopsMonitoring ==
    ShutdownCompleted("p1") => (status = "stopped" /\ intervals = {})

(* where it fails: after the shutdown an interval of an earlier initialize *)
(* fired and 'platform:health-check' was emitted                           *)
C28_HealthCheckAfterShutdown ==
    /\ ShutdownCompleted("p1")
    /\ status = "stopped"
    /\ healthCheckTimer = 0
    /\ out = <<Emit("platform:health-check")>>

(* an initialize that is called before the shutdown and overlaps it: p1    *)
(* initializes, once, and p2 shuts down                                    *)
NextShutdownOverlap ==
    /\ UNCHANGED cli
    /\ \/ (proc["p1"].op = "none" /\ proc["p2"].op = "none"
           /\ InitializeCall("p1"))
       \/ (proc["p1"].pc # "idle" /\ InitializeStep("p1"))
       \/ (proc["p2"].op = "none" /\ ShutdownCall("p2"))
       \/ (proc["p2"].pc # "idle" /\ ShutdownStep("p2"))
       \/ MonitoringStep

SpecShutdownOverlap == Init /\ [][NextShutdownOverlap]_vars

(* the same for a shutdown that an initialize overlaps *)
ShutdownStopsOverlappingInitialize ==
    ShutdownCompleted("p2") => (status = "stopped" /\ intervals = {})

----------------------------------------------------------------------------
(* Export, then import of what was exported *)

(* a manager on another memory, which holds nothing *)
OpenEmptyStore ==
    /\ expertise' = EmptyNs
    /\ knowledge' = EmptyNs
    /\ analyses' = EmptyNs
    /\ models' = EmptyNs
    /\ context' = EmptyNs
    /\ UNCHANGED <<shell, clock, ticks, lastPut, idCount, proc>>

Exported == Done("p2", "exportKnowledgeBase")

(* p1 fills the store; p2 exports it once; then p1 imports what p2 got,    *)
(* into the same store or into an empty one; nobody else writes            *)
NextRoundTrip ==
    \/ /\ proc["p2"].op = "none"
       /\ \/ Tick({1})
          \/ FillStep("p1")
          \/ (proc["p1"].pc = "idle" /\ ExportKnowledgeBaseCall("p2"))
    \/ ExportKnowledgeBaseQuery("p2")
    \/ ExportKnowledgeBaseReturn("p2")
    \/ /\ Exported
       /\ proc["p1"].op # "importKnowledgeBase"
       /\ \/ OpenEmptyStore
          \/ ImportKnowledgeBaseCall("p1", proc["p2"].ret[1])
    \/ ImportKnowledgeBaseStore("p1")

SpecRoundTrip == Init /\ [][NextRoundTrip]_vars

(* the four primary namespaces of a record of namespaces *)
Primary(n) == <<n.expertise, n.knowledge, n.analyses, n.models>>

NoRecords == <<EmptyNs, EmptyNs, EmptyNs, EmptyNs>>

(* C29: importing what exportKnowledgeBase returned into the store it was  *)
(* exported from, with no other writer, leaves the four primary namespaces *)
(* as they were, during the import and after it; importing it into an      *)
(* empty store leaves that store with the four primary namespaces of the   *)
(* exporting store, record for record.                                     *)
C29_ExportImportRoundTrip ==
    (Exported /\ proc["p1"].op = "importKnowledgeBase") =>
        LET source == Primary(proc["p2"].pre)
            target == Primary(proc["p1"].pre)
        IN  /\ target = source => Primary(Namespaces) = source
            /\ (target = NoRecords /\ proc["p1"].pc = "idle")
               => Primary(Namespaces) = source

(* reached: the export of a store with two records in one namespace and a  *)
(* record in another was imported into an empty store                      *)
C29_Witness ==
    /\ Exported
    /\ Done("p1", "importKnowledgeBase")
    /\ Primary(proc["p1"].pre) = NoRecords
    /\ \E j \in 1..4 : Cardinality(DOMAIN Primary(proc["p2"].pre)[j]) >= 2
    /\ Cardinality({j \in 1..4 : Primary(Namespaces)[j] # EmptyNs}) >= 2

----------------------------------------------------------------------------
(* The integration framework: predictive bills *)

(* config.name of the databases that are connected: the name the bill      *)
(* queries and the name the default configuration gives the KLS database   *)
DatabaseNames == {"kls", "Viewpoint_KLS"}

(* a method of the framework without await: it ends in the step of its call *)
Ran(p, opv, argv) ==
    proc' = [proc EXCEPT ![p] = [IdleProc EXCEPT !.op = opv, !.arg = argv,
                                                 !.now = clock]]

(* connectToViewpointDatabase(config): databaseConnections.set(config.name) *)
ConnectToViewpointDatabase(p, name) ==
    /\ proc[p].pc = "idle"
    /\ databaseConnections' = databaseConnections \cup {name}
    /\ Ran(p, "connectToViewpointDatabase", <<name>>)
    /\ UNCHANGED <<platform, expertSystemClients, cli, clock, ticks, stores>>

(* disconnect(): both maps are cleared *)
Disconnect(p) ==
    /\ proc[p].pc = "idle"
    /\ databaseConnections' = {}
    /\ expertSystemClients' = {}
    /\ Ran(p, "disconnect", <<>>)
    /\ UNCHANGED <<platform, cli, clock, ticks, stores>>

(* executeViewpointQuery(database, query): success exactly when a          *)
(* connection is registered under database; it never rejects               *)
ExecuteViewpointQuery(database) ==
    [success |-> database \in databaseConnections, source |-> database]

(* predictiveModel?.performance.accuracy || 0.85, in hundredths *)
Confidence(best) ==
    IF best = <<>> \/ best[1].performance.accuracy = 0
    THEN 85 ELSE best[1].performance.accuracy

(* generatePredictiveBill: the query of the historical billing runs, its   *)
(* result is awaited.  pre gathers the results of the queries (history).   *)
GeneratePredictiveBillCall(p) ==
    /\ proc[p].pc = "idle"
    /\ BeginWith(p, "gpb_cost", "generatePredictiveBill", <<>>, <<>>,
                 [queries |-> <<ExecuteViewpointQuery("kls")>>])
    /\ UNCHANGED <<shell, clock, ticks, stores>>

(* generatePredictiveBill: the query of the cost data, then the query of   *)
(* the contract                                                            *)
GeneratePredictiveBillQuery(p) ==
    /\ proc[p].pc \in {"gpb_cost", "gpb_contract"}
    /\ proc' = [proc EXCEPT
                  ![p].pc = IF @ = "gpb_cost" THEN "gpb_contract"
                            ELSE "gpb_model",
                  ![p].pre.queries = Append(@, ExecuteViewpointQuery("kls"))]
    /\ UNCHANGED <<shell, clock, ticks, stores>>

(* generatePredictiveBill: getBestPredictiveModel('billing-prediction')    *)
(* is called, its memory.query is awaited                                  *)
GeneratePredictiveBillModel(p) ==
    /\ proc[p].pc = "gpb_model"
    /\ \E ord \in Orderings(MemQuery(models, [type |-> "billing-prediction"])) :
          proc' = [proc EXCEPT ![p].pc = "gpb_return", ![p].snap = ord]
    /\ UNCHANGED <<shell, clock, ticks, stores>>

(* generatePredictiveBill: the bill is built and returned with success *)
GeneratePredictiveBillReturn(p) ==
    /\ proc[p].pc = "gpb_return"
    /\ Finish(p, clock, <<[success |-> TRUE,
                           confidence |-> Confidence(BestOf(proc[p].snap))]>>)
    /\ UNCHANGED <<shell, clock, ticks, stores>>

(* generatePredictiveBill: the memory rejects the query of the models; the *)
(* catch returns a failure                                                 *)
GeneratePredictiveBillFails(p) ==
    /\ proc[p].pc = "gpb_return"
    /\ Finish(p, clock, <<[success |-> FALSE]>>)
    /\ UNCHANGED <<shell, clock, ticks, stores>>

GeneratePredictiveBillStep(p) ==
    \/ GeneratePredictiveBillCall(p)
    \/ GeneratePredictiveBillQuery(p)
    \/ GeneratePredictiveBillModel(p)
    \/ GeneratePredictiveBillReturn(p)
    \/ GeneratePredictiveBillFails(p)

(* p1 stores models and generates bills while p2 connects and disconnects *)
NextBill ==
    \/ GeneratePredictiveBillStep("p1")
    \/ \E accuracy \in Accuracies :
          StorePredictiveModelCall("p1", "billing-prediction", accuracy)
    \/ StorePredictiveModelWrite("p1")
    \/ \E name \in DatabaseNames : ConnectToViewpointDatabase("p2", name)
    \/ Disconnect("p2")

SpecBill == Init /\ [][NextBill]_vars

BillDone(p) == Done(p, "generatePredictiveBill")

(* C30: generatePredictiveBill returns success: true only when each of its *)
(* three queries against 'kls' returned success: true.                     *)
C30_BillSuccessNeedsQueries ==
    \A p \in Procs :
        (BillDone(p) /\ proc[p].ret[1].success)
        => \A j \in 1..3 : proc[p].pre.queries[j].success

(* where it fails: success although no connection was ever registered *)
C30_SuccessWithoutConnection ==
    /\ BillDone("p1")
    /\ proc["p1"].ret[1].success
    /\ proc["p2"].op = "none"
    /\ databaseConnections = {}
    /\ \A j \in 1..3 : ~proc["p1"].pre.queries[j].success

====
